---- MODULE Spec2Model ----
(***************************************************************************)
(* A model of the ETSS-07-ImageEnhance toolkit: the subspace blueprint     *)
(* separable convolution layers, the layer registries filled when the      *)
(* layer modules are imported, the CityscapesLoL dataset listing, the      *)
(* Concat and Sum plugin layers, the config loader, the End2EndEnhancer    *)
(* forward passes and the EvoNorm layers.                                  *)
(*                                                                         *)
(* The units do not share state, so each has its own specification         *)
(* (SpecConv, SpecRegistry, SpecDataset, SpecPlugin, SpecConfig,           *)
(* SpecEnhancer, SpecForward, SpecNorm, ...) over the same variables; a    *)
(* unit's specification leaves the other units' variables at their         *)
(* initial value.                                                          *)
(***************************************************************************)
EXTENDS Integers, Sequences, FiniteSets, TLC

VARIABLES
    layer,      \* the separable convolution layer object (blueprint.py)
    registry,   \* the registries and the progress of the module imports
    dataset,    \* the CityscapesLoL object and the directory it lists
    plugin,     \* the Concat / Sum layer object and its last forward call
    config,     \* the config files, the last load_config call, the namespaces held
    enhancer,   \* the End2EndEnhancer object and its last forward call
    norm,       \* the EvoNorm layer object and its last forward call
    metric,     \* the MSE metric object and its last call
    datamodule  \* the CityscapesLoLDataModule object and its last setup call

vars == <<layer, registry, dataset, plugin, config, enhancer, norm, metric,
          datamodule>>

\* ------------------------------------------------------------------ bounds

\* Largest in_channels / out_channels of a constructed layer.
MaxChannels == 3

\* Largest min_mid_channels passed to a constructor.
MaxMinMid == 3

\* The ratio p is drawn from the multiples of 1/PDen.
PDen == 4

\* Largest batch_size of a dataset.
MaxBatchSize == 2

\* Most list_files calls on one dataset object.
MaxListCalls == 2

\* Most tensors in the list given to Concat.forward or Sum.forward, and the
\* largest n of a Sum.
MaxInputs == 2

\* Most attribute writes (assignments, deletions) to a loaded namespace.
MaxWrites == 2

\* ----------------------------------------------------------------- helpers

Max(a, b) == IF a >= b THEN a ELSE b

Min(a, b) == IF a <= b THEN a ELSE b

\* math.ceil(a / b) for an integer a and b > 0.
Ceil(a, b) == -((-a) \div b)

RECURSIVE SumTo(_, _)
\* f[1] + ... + f[n], the sum a matrix product or a norm runs over.
SumTo(f, n) == IF n <= 0 THEN 0 ELSE f[n] + SumTo(f, n - 1)

None == [t |-> "None", v |-> 0]

\* ------------------------------- subspace blueprint separable convolution

ConvClasses == {"SubspaceBlueprintSeparableConv2d",
                "AttentionSubspaceBlueprintSeparableConv2d"}

\* The mid-channel count without the cap at in_channels.
MidChannelsUncapped(in_channels, min_mid_channels, pn, pd) ==
    Max(min_mid_channels, Ceil(pn * in_channels, pd))

\* The mid-channel count without the floor min_mid_channels.
MidChannelsNoFloor(in_channels, min_mid_channels, pn, pd) ==
    Min(in_channels, Ceil(pn * in_channels, pd))

\* mid_channels = min(in_channels, max(min_mid_channels, ceil(p * in_channels)))
\* with p = pn / pd.
MidChannels(in_channels, min_mid_channels, pn, pd) ==
    Min(in_channels, Max(min_mid_channels, Ceil(pn * in_channels, pd)))

\* A row of the 1x1 kernel pw_conv1.weight[:, :, 0, 0]: the freshly initialised
\* weight is random, here one of: the zero row, a unit row, and a row with two
\* non-zero entries.
WeightRows(n) ==
    {[k \in 1..n |-> 0]}
    \cup {[k \in 1..n |-> IF k = j THEN 1 ELSE 0] : j \in 1..n}
    \cup {[k \in 1..n |-> IF k <= 2 THEN 1 ELSE 0]}

\* base.Conv2d(in_channels, out_channels, kernel_size = 1, bias = False) with
\* the weight w of shape out_channels x in_channels.
PointwiseConv(in_channels, out_channels, w) ==
    [in_channels |-> in_channels, out_channels |-> out_channels, weight |-> w]

\* The depthwise convolution: groups = in_channels = out_channels.
DepthwiseConv(out_channels) ==
    [in_channels |-> out_channels, out_channels |-> out_channels,
     groups |-> out_channels]

NoLayer == [status |-> "none"]

NoLoss == [sqrt |-> -1]

\* __init__ of SubspaceBlueprintSeparableConv2d: no check of p.
ConstructSubspace(in_channels, out_channels, pn, min_mid_channels) ==
    /\ layer.status = "none"
    /\ LET mid == MidChannels(in_channels, min_mid_channels, pn, PDen)
       IN \E w \in [1..mid -> WeightRows(in_channels)] :
            layer' = [status           |-> "ok",
                      cls              |-> "SubspaceBlueprintSeparableConv2d",
                      in_channels      |-> in_channels,
                      out_channels     |-> out_channels,
                      p                |-> <<pn, PDen>>,
                      min_mid_channels |-> min_mid_channels,
                      pw_conv1         |-> PointwiseConv(in_channels, mid, w),
                      pw_conv2         |-> PointwiseConv(mid, out_channels, <<>>),
                      dw_conv          |-> DepthwiseConv(out_channels),
                      loss             |-> NoLoss]
    /\ UNCHANGED <<registry, dataset, plugin, config, enhancer, norm, metric,
                   datamodule>>

\* __init__ of AttentionSubspaceBlueprintSeparableConv2d: asserts 0 <= p <= 1
\* before anything is built.
ConstructAttention(in_channels, out_channels, pn, min_mid_channels) ==
    /\ layer.status = "none"
    /\ IF ~(0 <= pn /\ pn <= PDen)
       THEN layer' = [status |-> "AssertionError"]
       ELSE LET mid == MidChannels(in_channels, min_mid_channels, pn, PDen)
            IN \E w \in [1..mid -> WeightRows(in_channels)] :
                 layer' = [status           |-> "ok",
                           cls              |-> "AttentionSubspaceBlueprintSeparableConv2d",
                           in_channels      |-> in_channels,
                           out_channels     |-> out_channels,
                           p                |-> <<pn, PDen>>,
                           min_mid_channels |-> min_mid_channels,
                           pw_conv1         |-> PointwiseConv(in_channels, mid, w),
                           pw_conv2         |-> PointwiseConv(mid, out_channels, <<>>),
                           dw_conv          |-> DepthwiseConv(out_channels),
                           loss             |-> NoLoss]
    /\ UNCHANGED <<registry, dataset, plugin, config, enhancer, norm, metric,
                   datamodule>>

\* torch.mm(w^T, w): the product taken over the rows instead of the columns.
GramOfColumns(w, rows, cols) ==
    [i \in 1..cols |-> [j \in 1..cols |->
        SumTo([k \in 1..rows |-> w[k][i] * w[k][j]], rows)]]

\* The loss with the transposed product: ||w^T w - I||.
RegularizationLossTransposed(w, rows, cols) ==
    LET wtw == GramOfColumns(w, rows, cols)
        d   == [i \in 1..cols |-> [j \in 1..cols |->
                   wtw[i][j] - (IF i = j THEN 1 ELSE 0)]]
    IN [sqrt |-> SumTo([i \in 1..cols |->
                    SumTo([j \in 1..cols |-> d[i][j] * d[i][j]], cols)], cols)]

\* wwt = torch.mm(w, torch.transpose(w, 0, 1)) for w of shape rows x cols.
MatMulTranspose(w, rows, cols) ==
    [i \in 1..rows |-> [j \in 1..rows |->
        SumTo([k \in 1..cols |-> w[i][k] * w[j][k]], cols)]]

\* torch.eye(n)
Eye(n) == [i \in 1..n |-> [j \in 1..n |-> IF i = j THEN 1 ELSE 0]]

\* torch.norm(wwt - i, p = "fro"): the square root of the sum of the squared
\* entries; the value is kept as its radicand, [sqrt |-> s] standing for the
\* square root of s.
RegularizationLoss(w, rows, cols) ==
    LET wwt == MatMulTranspose(w, rows, cols)
        i   == Eye(rows)
        d   == [r \in 1..rows |-> [c \in 1..rows |-> wwt[r][c] - i[r][c]]]
    IN [sqrt |-> SumTo([r \in 1..rows |->
                    SumTo([c \in 1..rows |-> d[r][c] * d[r][c]], rows)], rows)]

\* layer.regularization_loss()
CallRegularizationLoss ==
    /\ layer.status = "ok"
    /\ layer.loss = NoLoss
    /\ layer' = [layer EXCEPT !.loss =
                    RegularizationLoss(layer.pw_conv1.weight,
                                       layer.pw_conv1.out_channels,
                                       layer.pw_conv1.in_channels)]
    /\ UNCHANGED <<registry, dataset, plugin, config, enhancer, norm, metric,
                   datamodule>>

\* The out_channels the layers are constructed with.
OutChannels == {1, 2}

NextConv ==
    \/ \E c \in 1..MaxChannels, o \in OutChannels, pn \in -1..PDen + 1,
          m \in 0..MaxMinMid : ConstructSubspace(c, o, pn, m)
    \/ \E c \in 1..MaxChannels, o \in OutChannels, pn \in -1..PDen + 1,
          m \in 0..MaxMinMid : ConstructAttention(c, o, pn, m)
    \/ CallRegularizationLoss

\* A unit that takes no part in a specification.
Idle == [status |-> "idle"]

\* No layer has been constructed yet.
InitConv ==
    /\ layer = NoLayer
    /\ registry = Idle
    /\ dataset = Idle
    /\ plugin = Idle
    /\ config = Idle
    /\ enhancer = Idle
    /\ norm = Idle
    /\ metric = Idle
    /\ datamodule = Idle

SpecConv == InitConv /\ [][NextConv]_vars

\* The layer is constructed from in_channels > 0 and a ratio p in [0, 1].
ValidSubspaceLayer ==
    /\ layer.status = "ok"
    /\ layer.in_channels > 0
    /\ 0 <= layer.p[1] /\ layer.p[1] <= layer.p[2]

\* ceil(p * C) for p in [0, 1], by its definition: the integer k with
\* k - 1 < p * C <= k.
CeilOfRatio(pn, pd, c) ==
    CHOOSE k \in 0..c : (k - 1) * pd < pn * c /\ pn * c <= k * pd

\* C1: for both subspace classes, constructed with in_channels = C > 0, p in
\* [0, 1] and min_mid_channels = m, the output channels of pw_conv1 and the
\* input channels of pw_conv2 are min(C, max(m, ceil(p * C))).
C1_MidChannels ==
    ValidSubspaceLayer =>
        LET c == layer.in_channels
            m == layer.min_mid_channels
            k == CeilOfRatio(layer.p[1], layer.p[2], c)
            u == IF m >= k THEN m ELSE k
            expected == IF u <= c THEN u ELSE c
        IN /\ layer.cls \in ConvClasses
           /\ layer.pw_conv1.out_channels = expected
           /\ layer.pw_conv2.in_channels = expected
           /\ layer.pw_conv1.in_channels = c

\* C1 witness: both the cap at in_channels and the floor min_mid_channels have
\* been met: a layer whose floor exceeds in_channels and so has C mid channels.
C1_Witness ==
    /\ ValidSubspaceLayer
    /\ layer.min_mid_channels > layer.in_channels
    /\ layer.pw_conv1.out_channels = layer.in_channels
    /\ layer.cls = "AttentionSubspaceBlueprintSeparableConv2d"

\* The size of the subspace: the channels between the two pointwise
\* projections.
SubspaceSize == layer.pw_conv1.out_channels

\* C24 (as claimed): the subspace has size max(min_mid_channels,
\* ceil(p * in_channels)) for every in_channels > 0, every min_mid_channels
\* and every p in [0, 1].
C24_SubspaceSizeUncapped ==
    ValidSubspaceLayer =>
        SubspaceSize = Max(layer.min_mid_channels,
                           CeilOfRatio(layer.p[1], layer.p[2], layer.in_channels))

\* C24 (amended): the subspace has size max(min_mid_channels,
\* ceil(p * in_channels)) when that does not exceed in_channels, and size
\* in_channels when it does; both pointwise projections pass through it.
C24_SubspaceSizeCapped ==
    ValidSubspaceLayer =>
        LET floored == Max(layer.min_mid_channels,
                           CeilOfRatio(layer.p[1], layer.p[2], layer.in_channels))
        IN /\ floored <= layer.in_channels => SubspaceSize = floored
           /\ floored > layer.in_channels => SubspaceSize = layer.in_channels
           /\ layer.pw_conv2.in_channels = SubspaceSize

\* C24 witness: a SubspaceBlueprintSeparableConv2d of 2 input channels with
\* min_mid_channels = 3 and p > 0 has a subspace of size 2.
C24_Witness ==
    /\ ValidSubspaceLayer
    /\ layer.cls = "SubspaceBlueprintSeparableConv2d"
    /\ layer.in_channels = 2
    /\ layer.min_mid_channels = 3
    /\ layer.p[1] > 0
    /\ SubspaceSize = 2

\* The rows of w are mutually orthonormal: w * w^T = I.
Orthonormal(w, rows, cols) ==
    \A i, j \in 1..rows :
        SumTo([k \in 1..cols |-> w[i][k] * w[j][k]], cols)
            = (IF i = j THEN 1 ELSE 0)

\* C5: regularization_loss() is zero when the rows of pw_conv1's weight are
\* mutually orthonormal and strictly positive for every other weight.
C5_RegularizationLoss ==
    (layer.status = "ok" /\ layer.loss # NoLoss) =>
        LET w == layer.pw_conv1.weight
            ortho == Orthonormal(w, layer.pw_conv1.out_channels,
                                 layer.pw_conv1.in_channels)
        IN /\ ortho => layer.loss.sqrt = 0
           /\ ~ortho => layer.loss.sqrt > 0

\* C5 witness: the loss of two orthonormal rows in three channels is zero.
C5_Witness ==
    /\ layer.status = "ok"
    /\ layer.loss = [sqrt |-> 0]
    /\ layer.pw_conv1.out_channels = 2
    /\ layer.pw_conv1.in_channels = 3

\* ----------------------------------------------------------- layer registries

\* The modules whose import fills a registry, and the registries.
Modules == {"blueprint", "plugin", "evo_norm"}

Registries == {"LAYERS", "PLUGIN_LAYERS", "NORM_LAYERS"}

\* register() called without a name.
NoName == "<none>"

\* The module-level aliases: `BSConv2dS = SubspaceBlueprintSeparableConv2d`
\* binds a second identifier to the same class object.
Aliases ==
    ("BSConv2dS" :> "SubspaceBlueprintSeparableConv2d") @@
    ("BSConv2dU" :> "UnconstrainedBlueprintSeparableConv2d") @@
    ("ABSConv2dS" :> "AttentionSubspaceBlueprintSeparableConv2d") @@
    ("ABSConv2dU" :> "AttentionUnconstrainedBlueprintSeparableConv2d") @@
    ("ABSConv2dS1" :> "AttentionSubspaceBlueprintSeparableConv2d1") @@
    ("ABSConv2dS2" :> "AttentionSubspaceBlueprintSeparableConv2d2") @@
    ("ABSConv2dS3" :> "AttentionSubspaceBlueprintSeparableConv2d3") @@
    ("ABSConv2dS4" :> "AttentionSubspaceBlueprintSeparableConv2d4") @@
    ("ABSConv2dS5" :> "AttentionSubspaceBlueprintSeparableConv2d5") @@
    ("ABSConv2dS6" :> "AttentionSubspaceBlueprintSeparableConv2d6") @@
    ("ABSConv2dS7" :> "AttentionSubspaceBlueprintSeparableConv2d7") @@
    ("ABSConv2dS8" :> "AttentionSubspaceBlueprintSeparableConv2d8") @@
    ("ABSConv2dS9" :> "AttentionSubspaceBlueprintSeparableConv2d9") @@
    ("ABSConv2dS10" :> "AttentionSubspaceBlueprintSeparableConv2d10") @@
    ("ABSConv2dS11" :> "AttentionSubspaceBlueprintSeparableConv2d11") @@
    ("ABSConv2dS12" :> "AttentionSubspaceBlueprintSeparableConv2d12") @@
    ("ABSConv2dS13" :> "AttentionSubspaceBlueprintSeparableConv2d13") @@
    ("EvoNormBatch" :> "EvoNormBatch2d") @@
    ("EvoNormSample" :> "EvoNormSample2d")

\* Every identifier names its own class: an alias would be a class of its own.
ClassOfDistinct(ident) == ident

\* The class object an identifier of a layer module is bound to.
ClassOf(ident) == IF ident \in DOMAIN Aliases THEN Aliases[ident] ELSE ident

\* The registrations of blueprint.py in source order: the decorators and the
\* LAYERS.register(module = <alias>) calls.
BlueprintRegistrations == <<
    [line |-> 44, registry |-> "LAYERS", name |-> NoName, module |-> "SubspaceBlueprintSeparableConv2d"],
    [line |-> 140, registry |-> "LAYERS", name |-> NoName, module |-> "UnconstrainedBlueprintSeparableConv2d"],
    [line |-> 206, registry |-> "LAYERS", name |-> NoName, module |-> "BSConv2dS"],
    [line |-> 207, registry |-> "LAYERS", name |-> NoName, module |-> "BSConv2dU"],
    [line |-> 214, registry |-> "LAYERS", name |-> NoName, module |-> "AttentionSubspaceBlueprintSeparableConv2d"],
    [line |-> 313, registry |-> "LAYERS", name |-> NoName, module |-> "AttentionUnconstrainedBlueprintSeparableConv2d"],
    [line |-> 384, registry |-> "LAYERS", name |-> NoName, module |-> "AttentionSubspaceBlueprintSeparableConv2d1"],
    [line |-> 402, registry |-> "LAYERS", name |-> NoName, module |-> "AttentionSubspaceBlueprintSeparableConv2d2"],
    [line |-> 420, registry |-> "LAYERS", name |-> NoName, module |-> "AttentionSubspaceBlueprintSeparableConv2d3"],
    [line |-> 438, registry |-> "LAYERS", name |-> NoName, module |-> "AttentionSubspaceBlueprintSeparableConv2d4"],
    [line |-> 456, registry |-> "LAYERS", name |-> NoName, module |-> "AttentionSubspaceBlueprintSeparableConv2d5"],
    [line |-> 474, registry |-> "LAYERS", name |-> NoName, module |-> "AttentionSubspaceBlueprintSeparableConv2d6"],
    [line |-> 492, registry |-> "LAYERS", name |-> NoName, module |-> "AttentionSubspaceBlueprintSeparableConv2d7"],
    [line |-> 510, registry |-> "LAYERS", name |-> NoName, module |-> "AttentionSubspaceBlueprintSeparableConv2d8"],
    [line |-> 528, registry |-> "LAYERS", name |-> NoName, module |-> "AttentionSubspaceBlueprintSeparableConv2d9"],
    [line |-> 546, registry |-> "LAYERS", name |-> NoName, module |-> "AttentionSubspaceBlueprintSeparableConv2d10"],
    [line |-> 564, registry |-> "LAYERS", name |-> NoName, module |-> "AttentionSubspaceBlueprintSeparableConv2d11"],
    [line |-> 582, registry |-> "LAYERS", name |-> NoName, module |-> "AttentionSubspaceBlueprintSeparableConv2d12"],
    [line |-> 600, registry |-> "LAYERS", name |-> NoName, module |-> "AttentionSubspaceBlueprintSeparableConv2d13"],
    [line |-> 634, registry |-> "LAYERS", name |-> NoName, module |-> "ABSConv2dS"],
    [line |-> 635, registry |-> "LAYERS", name |-> NoName, module |-> "ABSConv2dU"],
    [line |-> 636, registry |-> "LAYERS", name |-> NoName, module |-> "ABSConv2dS1"],
    [line |-> 637, registry |-> "LAYERS", name |-> NoName, module |-> "ABSConv2dS2"],
    [line |-> 638, registry |-> "LAYERS", name |-> NoName, module |-> "ABSConv2dS3"],
    [line |-> 639, registry |-> "LAYERS", name |-> NoName, module |-> "ABSConv2dS4"],
    [line |-> 640, registry |-> "LAYERS", name |-> NoName, module |-> "ABSConv2dS5"],
    [line |-> 641, registry |-> "LAYERS", name |-> NoName, module |-> "ABSConv2dS6"],
    [line |-> 642, registry |-> "LAYERS", name |-> NoName, module |-> "ABSConv2dS7"],
    [line |-> 643, registry |-> "LAYERS", name |-> NoName, module |-> "ABSConv2dS8"],
    [line |-> 644, registry |-> "LAYERS", name |-> NoName, module |-> "ABSConv2dS9"],
    [line |-> 645, registry |-> "LAYERS", name |-> NoName, module |-> "ABSConv2dS10"],
    [line |-> 646, registry |-> "LAYERS", name |-> NoName, module |-> "ABSConv2dS11"],
    [line |-> 647, registry |-> "LAYERS", name |-> NoName, module |-> "ABSConv2dS12"],
    [line |-> 648, registry |-> "LAYERS", name |-> NoName, module |-> "ABSConv2dS13"]
    >>

\* The registrations of plugin.py.
PluginRegistrations == <<
    [line |-> 25, registry |-> "PLUGIN_LAYERS", name |-> "context_block", module |-> "ContextBlock"],
    [line |-> 157, registry |-> "PLUGIN_LAYERS", name |-> "concat", module |-> "Concat"],
    [line |-> 191, registry |-> "PLUGIN_LAYERS", name |-> "flatten", module |-> "Flatten"],
    [line |-> 216, registry |-> "PLUGIN_LAYERS", name |-> "focus", module |-> "Focus"],
    [line |-> 284, registry |-> "PLUGIN_LAYERS", name |-> "mean", module |-> "Mean"],
    [line |-> 315, registry |-> "PLUGIN_LAYERS", name |-> "scale", module |-> "Scale"],
    [line |-> 347, registry |-> "PLUGIN_LAYERS", name |-> "sum", module |-> "Sum"]
    >>

\* The registrations of evo_norm.py.
EvoNormRegistrations == <<
    [line |-> 30, registry |-> "NORM_LAYERS", name |-> "evo_norm_batch_2d", module |-> "EvoNormBatch2d"],
    [line |-> 89, registry |-> "NORM_LAYERS", name |-> "evo_norm_batch", module |-> "EvoNormBatch"],
    [line |-> 94, registry |-> "NORM_LAYERS", name |-> "evo_norm_sample_2d", module |-> "EvoNormSample2d"],
    [line |-> 142, registry |-> "NORM_LAYERS", name |-> "evo_norm_sample", module |-> "EvoNormSample"]
    >>

Registrations(m) ==
    CASE m = "blueprint" -> BlueprintRegistrations
      [] m = "plugin"    -> PluginRegistrations
      [] m = "evo_norm"  -> EvoNormRegistrations

\* The key a registration is filed under: the name given, else the name of
\* the class object (which is the same for a class and its alias).
RegisteredName(name, cls) == IF name # NoName THEN name ELSE cls

\* A registry that keeps the first registration of a name and ignores the rest.
RegisterKeepFirst(table, name, cls) ==
    IF name \in DOMAIN table
    THEN [table |-> table, error |-> "none"]
    ELSE [table |-> table @@ (name :> cls), error |-> "none"]

\* register(name, module): files the constructor under the name; a name that
\* is already registered is an error and leaves the registry as it was.
Register(table, name, cls) ==
    IF name \in DOMAIN table
    THEN [table |-> table, error |-> "DuplicateError"]
    ELSE [table |-> table @@ (name :> cls), error |-> "none"]

NoRegistration ==
    [line |-> 0, name |-> NoName, alias |-> FALSE, duplicate |-> FALSE,
     outcome |-> "none"]

\* The next registration statement of module m runs; an error ends the import
\* of m.
ImportStep(m) ==
    /\ registry.status = "run"
    /\ registry.error[m] = "none"
    /\ registry.pc[m] <= Len(Registrations(m))
    /\ LET stmt == Registrations(m)[registry.pc[m]]
           cls  == ClassOf(stmt.module)
           key  == RegisteredName(stmt.name, cls)
           old  == registry.tables[stmt.registry]
           r    == Register(old, key, cls)
       IN registry' =
            [registry EXCEPT
                !.tables[stmt.registry] = r.table,
                !.error[m] = r.error,
                !.pc[m] = IF r.error = "none" THEN @ + 1 ELSE @,
                !.accepted[stmt.registry] =
                    IF r.error = "none" THEN @ + 1 ELSE @,
                !.last[m] = [line      |-> stmt.line,
                             name      |-> stmt.name,
                             alias     |-> stmt.module \in DOMAIN Aliases,
                             duplicate |-> key \in DOMAIN old,
                             outcome   |-> IF r.error = "none" THEN "registered"
                                           ELSE r.error]]
    /\ UNCHANGED <<layer, dataset, plugin, config, enhancer, norm, metric,
                   datamodule>>

\* No layer module has been imported yet: the registries are empty.
InitRegistry ==
    /\ registry = [status   |-> "run",
                   tables   |-> [r \in Registries |-> <<>>],
                   accepted |-> [r \in Registries |-> 0],
                   pc       |-> [m \in Modules |-> 1],
                   error    |-> [m \in Modules |-> "none"],
                   last     |-> [m \in Modules |-> NoRegistration]]
    /\ layer = NoLayer
    /\ dataset = Idle
    /\ plugin = Idle
    /\ config = Idle
    /\ enhancer = Idle
    /\ norm = Idle
    /\ metric = Idle
    /\ datamodule = Idle

NextRegistry == \E m \in Modules : ImportStep(m)

SpecRegistry == InitRegistry /\ [][NextRegistry]_vars

Roots == {"datasets", "low"}

Splits == {"train"}

FileNames == {"a", "low"}

\* os.path.join(self.root, "lol", self.split, "low", "<name>.png")
ImagePath(root, split, name) == <<root, "lol", split, "low", name, ".png">>

\* str.replace(old, new): every occurrence of old in the path is replaced.
Replace(path, old, new) ==
    [i \in DOMAIN path |-> IF path[i] = old THEN new ELSE path[i]]

\* The sequences that list every element of the set s once.
Orderings(s) ==
    {q \in [1..Cardinality(s) -> s] : \A i, j \in DOMAIN q : q[i] = q[j] => i = j}

\* glob.glob(image_pattern): the .png files of <root>/lol/<split>/low, in the
\* order the file system gives them.
Glob(disk, root, split) ==
    {[i \in DOMAIN q |-> ImagePath(root, split, q[i])] : q \in Orderings(disk.low)}

\* os.path.isfile(path) on the dataset directory.
IsFile(disk, root, split, path) ==
    /\ path[1] = root /\ path[2] = "lol" /\ path[3] = split
    /\ \/ path[4] = "low" /\ path[6] = ".png" /\ path[5] \in disk.low
       \/ path[4] = "high" /\ path[6] = ".png" /\ path[5] \in disk.high
       \/ path[4] = "customs" /\ path[6] = ".json" /\ path[5] \in disk.customs

\* Indices drawn without repetition: at most as many as there are images.
FastDevRunIndicesCapped(n, batch_size) ==
    [1..Min(n, batch_size) -> 0..n - 1]

\* [random.randint(0, len(image_paths) - 1) for _ in range(batch_size)]: the
\* index lists the draw can give; none when randint is given the empty range
\* 0..-1 (it raises ValueError).
FastDevRunIndices(n, batch_size) ==
    [1..batch_size -> 0..n - 1]

\* A loop that appends the target path twice per listed image.
AppendListedTargetsTwice(ds, listed) ==
    LET labelOf(p) == Replace(Replace(p, "low", "customs"), ".png", ".json")
        targets == [i \in DOMAIN listed |-> Replace(listed[i], "low", "high")]
    IN [ds EXCEPT
          !.image_paths  = @ \o listed,
          !.eimage_paths = @ \o targets \o targets,
          !.label_paths  = @ \o [i \in DOMAIN listed |-> labelOf(listed[i])],
          !.has_custom_labels =
              IF listed = <<>> THEN @
              ELSE IsFile(ds.disk, ds.root, ds.split,
                          labelOf(listed[Len(listed)]))]

\* The `for image_path in image_paths` loop: the three lists grow by one entry
\* per listed image, has_custom_labels is overwritten at every entry.
AppendListed(ds, listed) ==
    LET labelOf(p) == Replace(Replace(p, "low", "customs"), ".png", ".json")
    IN [ds EXCEPT
          !.image_paths  = @ \o listed,
          !.eimage_paths = @ \o [i \in DOMAIN listed |->
                                    Replace(listed[i], "low", "high")],
          !.label_paths  = @ \o [i \in DOMAIN listed |-> labelOf(listed[i])],
          !.has_custom_labels =
              IF listed = <<>> THEN @
              ELSE IsFile(ds.disk, ds.root, ds.split,
                          labelOf(listed[Len(listed)]))]

\* The closing assertion of list_files.
CountAssertion(ds) ==
    IF Len(ds.image_paths) = Len(ds.eimage_paths) THEN "ok" ELSE "AssertionError"

\* CityscapesLoL.list_files()
ListFiles ==
    /\ dataset.status = "run"
    /\ dataset.calls < MaxListCalls
    /\ \E image_paths \in Glob(dataset.disk, dataset.root, dataset.split) :
         LET n    == Len(image_paths)
             call == [found |-> n, before |-> Len(dataset.image_paths)]
             done(ds) == [ds EXCEPT !.calls = @ + 1,
                                    !.last = call @@ [outcome |-> CountAssertion(ds)]]
         IN IF dataset.fast_dev_run
            THEN IF dataset.batch_size > 0 /\ n = 0
                 THEN dataset' = [dataset EXCEPT
                                    !.calls = @ + 1,
                                    !.last = call @@ [outcome |-> "ValueError"]]
                 ELSE \E indices \in FastDevRunIndices(n, dataset.batch_size) :
                        dataset' = done(AppendListed(dataset,
                            [i \in DOMAIN indices |-> image_paths[indices[i] + 1]]))
            ELSE dataset' = done(AppendListed(dataset, image_paths))
    /\ UNCHANGED <<layer, registry, plugin, config, enhancer, norm, metric,
                   datamodule>>

NoCall == [found |-> 0, before |-> 0, outcome |-> "none"]

\* No label_path given (the default None).
NoPath == <<>>

\* load_labels(image_path, eimage_path, label_path): the label file is read
\* by the handler when the dataset has custom labels and a label_path is
\* given; else the record is made from the headers of the two images.
LoadLabelsResult(ds, image_path, eimage_path, label_path) ==
    IF ds.has_custom_labels /\ label_path # NoPath
    THEN [source |-> "label_file", image_path |-> image_path,
          eimage_path |-> eimage_path, label_path |-> label_path]
    ELSE [source |-> "image_headers", image_path |-> image_path,
          eimage_path |-> eimage_path, label_path |-> label_path]

NoLoadLabels ==
    [source |-> "none", image_path |-> NoPath, eimage_path |-> NoPath,
     label_path |-> NoPath]

\* A call of load_labels for the i-th listed sample, with its label path or
\* without one.
LoadLabels(i, with_label_path) ==
    /\ dataset.status = "run"
    /\ i \in DOMAIN dataset.image_paths
    /\ dataset' = [dataset EXCEPT !.load =
                      LoadLabelsResult(dataset, dataset.image_paths[i],
                                       dataset.eimage_paths[i],
                                       IF with_label_path
                                       THEN dataset.label_paths[i] ELSE NoPath)]
    /\ UNCHANGED <<layer, registry, plugin, config, enhancer, norm, metric,
                   datamodule>>

\* A dataset object whose path lists are empty, over any content of the
\* split's low, high and customs directories.
InitDataset ==
    /\ \E low \in SUBSET FileNames, high \in SUBSET FileNames,
          customs \in SUBSET FileNames, root \in Roots, split \in Splits,
          fast \in BOOLEAN, batch_size \in 0..MaxBatchSize :
         dataset = [status            |-> "run",
                    disk              |-> [low |-> low, high |-> high,
                                           customs |-> customs],
                    root              |-> root,
                    split             |-> split,
                    fast_dev_run      |-> fast,
                    batch_size        |-> batch_size,
                    image_paths       |-> <<>>,
                    eimage_paths      |-> <<>>,
                    label_paths       |-> <<>>,
                    has_custom_labels |-> FALSE,
                    calls             |-> 0,
                    last              |-> NoCall,
                    load              |-> NoLoadLabels]
    /\ layer = NoLayer
    /\ registry = Idle
    /\ plugin = Idle
    /\ config = Idle
    /\ enhancer = Idle
    /\ norm = Idle
    /\ metric = Idle
    /\ datamodule = Idle

NextDataset ==
    \/ ListFiles
    \/ \E i \in 1..(MaxBatchSize * MaxListCalls), with_label_path \in BOOLEAN :
          LoadLabels(i, with_label_path)

SpecDataset == InitDataset /\ [][NextDataset]_vars

\* C2 (as claimed): list_files raises its count assertion whenever the number
\* of input images found in low differs from the number of target images in
\* high (stated for a dataset that lists every image found).
C2_RaisesOnCountMismatch ==
    (/\ dataset.status = "run"
     /\ ~dataset.fast_dev_run
     /\ dataset.calls >= 1
     /\ Cardinality(dataset.disk.low) # Cardinality(dataset.disk.high))
        => dataset.last.outcome = "AssertionError"

\* C3 (as claimed): with fast_dev_run, list_files on a new dataset ends with
\* exactly batch_size samples listed, whatever the number of images found.
C3_AlwaysBatchSize ==
    (/\ dataset.status = "run"
     /\ dataset.fast_dev_run
     /\ dataset.calls = 1)
        => /\ dataset.last.outcome = "ok"
           /\ Len(dataset.image_paths) = dataset.batch_size

\* C3 (amended): with fast_dev_run, a list_files call that finds at least one
\* image lists exactly batch_size entries (drawn with repetition, so also
\* when fewer images exist), which on a new dataset is all it lists; a call
\* that finds no image raises ValueError and lists nothing when batch_size > 0.
C3_BatchSizeWhenNonEmpty ==
    (/\ dataset.status = "run"
     /\ dataset.fast_dev_run
     /\ dataset.calls >= 1)
        => LET l == dataset.last
           IN /\ l.found >= 1 =>
                    /\ l.outcome = "ok"
                    /\ Len(dataset.image_paths) = l.before + dataset.batch_size
                    /\ dataset.calls = 1 =>
                           Len(dataset.image_paths) = dataset.batch_size
              /\ (l.found = 0 /\ dataset.batch_size > 0) =>
                    /\ l.outcome = "ValueError"
                    /\ Len(dataset.image_paths) = l.before
              /\ Len(dataset.eimage_paths) = Len(dataset.image_paths)
              /\ Len(dataset.label_paths) = Len(dataset.image_paths)

\* C3 witness: a fast_dev_run listing of a directory with fewer images than
\* batch_size has listed batch_size entries.
C3_Witness ==
    /\ dataset.status = "run"
    /\ dataset.fast_dev_run
    /\ dataset.calls = 1
    /\ dataset.last.found = 1
    /\ dataset.batch_size = 2
    /\ Len(dataset.image_paths) = 2

\* load_labels was called with the label path of a listed sample.
LabelsLoaded ==
    /\ dataset.status = "run"
    /\ dataset.load.source # "none"
    /\ dataset.load.label_path # NoPath

\* C19 (as claimed): load_labels of a listed sample whose custom label file
\* is missing makes the record from the image headers and does not read the
\* label file, whichever label files of the other samples exist.
C19_FallbackPerSample ==
    (/\ LabelsLoaded
     /\ ~IsFile(dataset.disk, dataset.root, dataset.split, dataset.load.label_path))
        => dataset.load.source = "image_headers"

\* C20 (as claimed): every listed input image path is paired with the target
\* path that differs from it only in the directory (high for low) and with
\* the label path that differs only in the directory (customs) and the
\* extension (.json), for every root and file name.
C20_DirectorySubstitution ==
    dataset.status = "run" =>
        \A i \in DOMAIN dataset.image_paths :
           /\ dataset.image_paths[i][4] = "low"
           /\ dataset.eimage_paths[i] = [dataset.image_paths[i] EXCEPT ![4] = "high"]
           /\ dataset.label_paths[i] =
                 [dataset.image_paths[i] EXCEPT ![4] = "customs", ![6] = ".json"]

\* C28: after any number of list_files calls on a dataset whose lists
\* started empty, image_paths, eimage_paths and label_paths have the same
\* length, the entries at every index i of eimage_paths and label_paths are
\* the ones list_files derives from image_paths[i], and no call has ended in
\* the count assertion failing.
C28_ListsStayAligned ==
    dataset.status = "run" =>
       /\ Len(dataset.eimage_paths) = Len(dataset.image_paths)
       /\ Len(dataset.label_paths) = Len(dataset.image_paths)
       /\ \A i \in DOMAIN dataset.image_paths :
             /\ dataset.eimage_paths[i] =
                   Replace(dataset.image_paths[i], "low", "high")
             /\ dataset.label_paths[i] =
                   Replace(Replace(dataset.image_paths[i], "low", "customs"),
                           ".png", ".json")
       /\ dataset.last.outcome # "AssertionError"
       /\ CountAssertion(dataset) = "ok"

\* Two list_files calls have each appended entries, over a directory whose
\* low and high directories hold different numbers of files.
C28_Witness ==
    /\ dataset.status = "run"
    /\ dataset.calls = 2
    /\ dataset.last.before >= 1
    /\ Len(dataset.image_paths) > dataset.last.before
    /\ Cardinality(dataset.disk.low) # Cardinality(dataset.disk.high)
    /\ dataset.last.outcome = "ok"


\* ------------------------------------------------------- Concat and Sum

\* A tensor is known by its shape <<N, C, H, W>>; the inputs of a forward call
\* are drawn from these shapes.
TensorShapes ==
    {<<1, 1, 2, 2>>, <<1, 2, 2, 2>>, <<1, 3, 2, 2>>, <<2, 2, 2, 2>>,
     <<1, 2, 1, 2>>, <<1, 2, 2, 3>>}

Rank == 4

\* The lists of at most MaxInputs tensors.
InputLists == UNION {[1..k -> TensorShapes] : k \in 0..MaxInputs}

\* The dim a Concat is constructed with (1, the channel dimension, is the
\* default); -5 and 4 are out of range for 4-D tensors.
ConcatDims == -5..4

NoPlugin == [cls |-> "none"]

NoOutput == [status |-> "none"]

\* Concat.__init__(dim)
ConstructConcat(dim) ==
    /\ plugin.status = "run"
    /\ plugin.obj = NoPlugin
    /\ plugin' = [plugin EXCEPT !.obj = [cls |-> "Concat", dim |-> dim]]
    /\ UNCHANGED <<layer, registry, dataset, config, enhancer, norm, metric,
                   datamodule>>

\* torch.cat of same-rank tensors along the dimension d (counted from 0): the
\* sizes must agree everywhere else; the result has the sum of the sizes at d
\* and holds the inputs in order.
CatAlong(x, d) ==
    IF \E i \in DOMAIN x : \E k \in 1..Rank :
           k # d + 1 /\ x[i][k] # x[1][k]
    THEN [status |-> "RuntimeError"]
    ELSE [status |-> "ok",
          shape  |-> [k \in 1..Rank |->
                        IF k = d + 1
                        THEN SumTo([i \in DOMAIN x |-> x[i][k]], Len(x))
                        ELSE x[1][k]],
          terms  |-> [i \in DOMAIN x |-> [input |-> i - 1]]]

\* The concatenation taken along the batch dimension, whatever dim is.
TorchCatDimIgnored(x, dim) ==
    IF x = <<>> THEN [status |-> "RuntimeError"] ELSE CatAlong(x, 0)

\* torch.cat(x, dim = self.dim): an empty list and a dim outside -4..3 are
\* errors; a negative dim counts from the last dimension.
TorchCat(x, dim) ==
    IF x = <<>> THEN [status |-> "RuntimeError"]
    ELSE IF dim < -Rank \/ dim >= Rank THEN [status |-> "IndexError"]
    ELSE CatAlong(x, IF dim < 0 THEN dim + Rank ELSE dim)

\* Concat.forward(x)
ConcatForward(x) ==
    /\ plugin.status = "run"
    /\ plugin.obj.cls = "Concat"
    /\ plugin' = [plugin EXCEPT !.x = x, !.out = TorchCat(x, plugin.obj.dim)]
    /\ UNCHANGED <<layer, registry, dataset, config, enhancer, norm, metric,
                   datamodule>>

\* self.w = nn.Parameter(-torch.arange(1.0, n) / 2): w[i] = -(i + 1) / 2 for
\* i in 0..n-2, kept as the numerator over 2 (w is indexed from 1 here).
SumWeights(n) == [i \in 1..n - 1 |-> -i]

\* Sum.__init__(n, weight)
ConstructSum(n, weight) ==
    /\ plugin.status = "run"
    /\ plugin.obj = NoPlugin
    /\ plugin' = [plugin EXCEPT !.obj =
                    [cls    |-> "Sum",
                     weight |-> weight,
                     iter   |-> n - 1,
                     w      |-> IF weight THEN SumWeights(n) ELSE <<>>]]
    /\ UNCHANGED <<layer, registry, dataset, config, enhancer, norm, metric,
                   datamodule>>

\* The shape of y + x under torch's broadcasting: sizes must be equal or 1.
Broadcastable(a, b) ==
    \A k \in 1..Rank : a[k] = b[k] \/ a[k] = 1 \/ b[k] = 1

Broadcast(a, b) == [k \in 1..Rank |-> Max(a[k], b[k])]

\* The factor an input enters the sum with.
Unscaled == [fn |-> "1", w |-> 0]

Scaled(w) == [fn |-> "2*sigmoid", w |-> w]

RECURSIVE SumLoopSkipLast(_, _, _, _)
\* The loop run over range(n - 2): the last input is left out.
SumLoopSkipLast(obj, x, y, i) ==
    IF i >= obj.iter - 1 THEN y
    ELSE IF i + 1 >= Len(x) THEN [status |-> "IndexError"]
    ELSE IF ~Broadcastable(y.shape, x[i + 2]) THEN [status |-> "RuntimeError"]
    ELSE SumLoopSkipLast(obj, x,
            [status |-> "ok",
             shape  |-> Broadcast(y.shape, x[i + 2]),
             terms  |-> Append(y.terms,
                          [input |-> i + 1,
                           scale |-> IF obj.weight THEN Scaled(obj.w[i + 1])
                                     ELSE Unscaled])],
            i + 1)

RECURSIVE SumLoop(_, _, _, _)
\* for i in self.iter: y = y + x[i + 1] * w[i]   (weighted)
\*                     y = y + x[i + 1]          (unweighted)
\* from iteration i on; x is indexed from 1 here, so x[i + 1] is x[i + 2].
SumLoop(obj, x, y, i) ==
    IF i >= obj.iter THEN y
    ELSE IF i + 1 >= Len(x) THEN [status |-> "IndexError"]
    ELSE IF ~Broadcastable(y.shape, x[i + 2]) THEN [status |-> "RuntimeError"]
    ELSE SumLoop(obj, x,
            [status |-> "ok",
             shape  |-> Broadcast(y.shape, x[i + 2]),
             terms  |-> Append(y.terms,
                          [input |-> i + 1,
                           scale |-> IF obj.weight THEN Scaled(obj.w[i + 1])
                                     ELSE Unscaled])],
            i + 1)

\* Sum.forward(x): y = x[0], then the loop.
SumForwardResult(obj, x) ==
    IF x = <<>> THEN [status |-> "IndexError"]
    ELSE SumLoop(obj, x,
            [status |-> "ok", shape |-> x[1],
             terms |-> <<[input |-> 0, scale |-> Unscaled]>>],
            0)

\* Sum.forward(x)
SumForward(x) ==
    /\ plugin.status = "run"
    /\ plugin.obj.cls = "Sum"
    /\ plugin' = [plugin EXCEPT !.x = x, !.out = SumForwardResult(plugin.obj, x)]
    /\ UNCHANGED <<layer, registry, dataset, config, enhancer, norm, metric,
                   datamodule>>

\* No plugin layer has been constructed yet.
InitPlugin ==
    /\ plugin = [status |-> "run", obj |-> NoPlugin, x |-> <<>>, out |-> NoOutput]
    /\ layer = NoLayer
    /\ registry = Idle
    /\ dataset = Idle
    /\ config = Idle
    /\ enhancer = Idle
    /\ norm = Idle
    /\ metric = Idle
    /\ datamodule = Idle

NextPlugin ==
    \/ \E dim \in ConcatDims : ConstructConcat(dim)
    \/ \E x \in InputLists : ConcatForward(x)
    \/ \E n \in 0..MaxInputs, weight \in BOOLEAN : ConstructSum(n, weight)
    \/ \E x \in InputLists : SumForward(x)

SpecPlugin == InitPlugin /\ [][NextPlugin]_vars

\* Concat.forward has been called on a non-empty list of tensors that agree
\* on every dimension but the channel dimension.
ConcatCalledOnChannelLists ==
    /\ plugin.status = "run"
    /\ plugin.obj.cls = "Concat"
    /\ plugin.out # NoOutput
    /\ plugin.x # <<>>
    /\ \A i \in DOMAIN plugin.x : \A k \in {1, 3, 4} :
          plugin.x[i][k] = plugin.x[1][k]

\* The result has the sum of the inputs' channel counts and the inputs' other
\* dimensions.
ChannelsAdded ==
    /\ plugin.out.status = "ok"
    /\ plugin.out.shape[2] =
          SumTo([i \in DOMAIN plugin.x |-> plugin.x[i][2]], Len(plugin.x))
    /\ \A k \in {1, 3, 4} : plugin.out.shape[k] = plugin.x[1][k]

\* C6 (as claimed): Concat.forward on tensors that agree on every dimension
\* but the channel dimension returns a tensor with the sum of the inputs'
\* channel counts and their other dimensions (stated for the Concat layers
\* whose dim is a dimension of the inputs).
C6_ConcatAddsChannels ==
    (ConcatCalledOnChannelLists /\ plugin.obj.dim \in -Rank..Rank - 1)
        => ChannelsAdded

\* C6 (amended): the same, for a Concat constructed with dim = 1 (the
\* default) or the equal dim = -3.
C6_ConcatAddsChannelsOnDim1 ==
    (ConcatCalledOnChannelLists /\ plugin.obj.dim \in {1, 1 - Rank})
        => ChannelsAdded

\* C6 witness: a default Concat has joined tensors of 1 and 2 channels into
\* one of 3 channels.
C6_Witness ==
    /\ ConcatCalledOnChannelLists
    /\ plugin.obj.dim = 1
    /\ Len(plugin.x) = 2
    /\ plugin.x[1][2] = 1 /\ plugin.x[2][2] = 2
    /\ plugin.out.status = "ok"
    /\ plugin.out.shape = <<1, 3, 2, 2>>

\* C7: Sum.forward, weighted or not, on n >= 1 same-shaped inputs (n the n
\* the Sum was constructed with) returns a tensor of the inputs' shape to which
\* every input contributes once: input 0 unscaled, input i + 1 scaled by
\* 2 * sigmoid(w[i]) when weighted and unscaled otherwise.
C7_SumKeepsShapeAndUsesAll ==
    (/\ plugin.status = "run"
     /\ plugin.obj.cls = "Sum"
     /\ plugin.out # NoOutput
     /\ Len(plugin.x) >= 1
     /\ Len(plugin.x) = plugin.obj.iter + 1
     /\ \A i \in DOMAIN plugin.x : plugin.x[i] = plugin.x[1])
        => /\ plugin.out.status = "ok"
           /\ plugin.out.shape = plugin.x[1]
           /\ Len(plugin.out.terms) = Len(plugin.x)
           /\ \A j \in 0..Len(plugin.x) - 1 :
                 /\ plugin.out.terms[j + 1].input = j
                 /\ plugin.out.terms[j + 1].scale =
                       IF j > 0 /\ plugin.obj.weight
                       THEN [fn |-> "2*sigmoid", w |-> plugin.obj.w[j]]
                       ELSE [fn |-> "1", w |-> 0]

\* C7 witness: a weighted Sum of as many inputs as the lists allow has summed
\* them all.
C7_Witness ==
    /\ plugin.status = "run"
    /\ plugin.obj.cls = "Sum"
    /\ plugin.obj.weight
    /\ plugin.obj.iter = 1
    /\ Len(plugin.x) = 2
    /\ plugin.x[1] = plugin.x[2]
    /\ plugin.out.status = "ok"
    /\ Len(plugin.out.terms) = 2

\* ------------------------------------------------------------ load_config

\* A Python value is [t |-> its type, v |-> its content]: None, an int, a str,
\* a list (a sequence of values), a dict or a Munch (a function from keys to
\* values).
PyInt(i) == [t |-> "int", v |-> i]

PyStr(x) == [t |-> "str", v |-> x]

PyList(q) == [t |-> "list", v |-> q]

PyDict(f) == [t |-> "dict", v |-> f]

Keys == {"a", "b"}

\* The dicts with keys among ks and values among vals.
DictsOver(ks, vals) == {PyDict(f) : f \in UNION {[d -> vals] : d \in SUBSET ks}}

\* The values nested in a config: a number, a mapping, a list.
NestedValues == {PyInt(1)} \cup DictsOver({"a"}, {PyInt(1)}) \cup {PyList(<<PyInt(1)>>)}

\* The mappings a config file or a config dict holds.
Mappings == DictsOver(Keys, NestedValues)

\* What the file loader can return for the path: nothing, a mapping, or a
\* value that is no mapping.
FileContents ==
    {None} \cup Mappings \cup {PyInt(1), PyList(<<>>)}
    \cup {PyList(<<x>>) : x \in NestedValues}

ConfigPath == "config.yaml"

\* load(path = config): what the file at the path holds.
Load(files, path) == files[path]

RECURSIVE Munchify(_)
\* Munch.fromDict: a dict becomes a Munch and so does every dict nested in it
\* or in a list in it; any other value is returned as it is.
Munchify(x) ==
    CASE x.t = "dict" -> [t |-> "Munch", v |-> [k \in DOMAIN x.v |-> Munchify(x.v[k])]]
      [] x.t = "list" -> PyList([i \in DOMAIN x.v |-> Munchify(x.v[i])])
      [] OTHER        -> x

RECURSIVE Frozen(_)
\* A conversion to a namespace that refuses attribute writes.
Frozen(x) ==
    CASE x.t = "dict" -> [t |-> "FrozenMunch", v |-> [k \in DOMAIN x.v |-> Frozen(x.v[k])]]
      [] x.t = "list" -> PyList([i \in DOMAIN x.v |-> Frozen(x.v[i])])
      [] OTHER        -> x

\* Munch(config_dict): only the outer dict becomes a Munch.
MunchShallow(x) == IF x.t = "dict" THEN [t |-> "Munch", v |-> x.v] ELSE x

\* config = Munch.fromDict(config_dict)
FromDict(x) == Munchify(x)

\* load_config that converts a loaded file with Munch(...) instead of
\* Munch.fromDict(...).
LoadConfigShallowFile(files, cfg) ==
    IF cfg.t = "str"
    THEN IF Load(files, cfg.v) = None
         THEN [outcome |-> "AssertionError", result |-> None, loaded |-> TRUE]
         ELSE [outcome |-> "returned", result |-> MunchShallow(Load(files, cfg.v)),
               loaded |-> TRUE]
    ELSE IF cfg.t = "dict"
    THEN [outcome |-> "returned", result |-> Munchify(cfg), loaded |-> FALSE]
    ELSE [outcome |-> "ValueError", result |-> None, loaded |-> FALSE]

\* load_config that takes whatever is not a dict for a path and loads it.
LoadConfigNoTypeCheck(files, cfg) ==
    LET config_dict == IF cfg.t = "dict" THEN cfg ELSE Load(files, ConfigPath)
    IN IF config_dict = None
       THEN [outcome |-> "AssertionError", result |-> None, loaded |-> cfg.t # "dict"]
       ELSE [outcome |-> "returned", result |-> Munchify(config_dict),
             loaded |-> cfg.t # "dict"]

\* load_config(config): the dict is loaded from the file when config is a
\* str, is config itself when it is a dict, else ValueError; the assertion
\* refuses None; the rest is converted and returned. loaded tells whether
\* load(path = config) was called.
LoadConfigResult(files, cfg) ==
    LET config_dict == IF cfg.t = "str" THEN Load(files, cfg.v) ELSE cfg
    IN IF cfg.t \notin {"str", "dict"}
       THEN [outcome |-> "ValueError", result |-> None, loaded |-> FALSE]
       ELSE IF config_dict = None
       THEN [outcome |-> "AssertionError", result |-> None, loaded |-> cfg.t = "str"]
       ELSE [outcome |-> "returned", result |-> FromDict(config_dict),
             loaded |-> cfg.t = "str"]

\* The arguments load_config is called with: the path, a dict, or a value of
\* another type.
ConfigArgs ==
    {PyStr(ConfigPath)} \cup Mappings \cup {PyInt(1), None, PyList(<<>>)}

NoLoad == [config |-> None, outcome |-> "none", result |-> None, loaded |-> FALSE]

\* A call of load_config; the caller keeps what is returned (nothing when
\* the call raised).
LoadConfig(cfg) ==
    /\ config.status = "run"
    /\ LET r == LoadConfigResult(config.files, cfg)
       IN config' = [config EXCEPT
                        !.last = [config |-> cfg, outcome |-> r.outcome,
                                  result |-> r.result, loaded |-> r.loaded],
                        !.ns = r.result,
                        !.writes = 0]
    /\ UNCHANGED <<layer, registry, dataset, plugin, enhancer, norm, metric,
                   datamodule>>

\* The function f with the key k set to the value x.
WithKey(f, k, x) ==
    [j \in DOMAIN f \cup {k} |-> IF j = k THEN x ELSE f[j]]

\* The function f without the key k.
WithoutKey(f, k) == [j \in DOMAIN f \ {k} |-> f[j]]

\* What a holder of the namespace assigns.
NewValue == PyInt(2)

\* ns.k = value on the namespace returned by load_config: Munch stores the
\* attribute as the key k, new or not.
SetAttr(k) ==
    /\ config.status = "run"
    /\ config.writes < MaxWrites
    /\ config.ns.t = "Munch"
    /\ config' = [config EXCEPT !.ns.v = WithKey(@, k, NewValue),
                                !.writes = @ + 1]
    /\ UNCHANGED <<layer, registry, dataset, plugin, enhancer, norm, metric,
                   datamodule>>

\* del ns.k
DelAttr(k) ==
    /\ config.status = "run"
    /\ config.writes < MaxWrites
    /\ config.ns.t = "Munch"
    /\ k \in DOMAIN config.ns.v
    /\ config' = [config EXCEPT !.ns.v = WithoutKey(@, k),
                                !.writes = @ + 1]
    /\ UNCHANGED <<layer, registry, dataset, plugin, enhancer, norm, metric,
                   datamodule>>

\* ns.k.j = value, on a nested namespace.
SetNestedAttr(k, j) ==
    /\ config.status = "run"
    /\ config.writes < MaxWrites
    /\ config.ns.t = "Munch"
    /\ k \in DOMAIN config.ns.v
    /\ config.ns.v[k].t = "Munch"
    /\ config' = [config EXCEPT !.ns.v[k].v = WithKey(@, j, NewValue),
                                !.writes = @ + 1]
    /\ UNCHANGED <<layer, registry, dataset, plugin, enhancer, norm, metric,
                   datamodule>>

\* del ns.k.j
DelNestedAttr(k, j) ==
    /\ config.status = "run"
    /\ config.writes < MaxWrites
    /\ config.ns.t = "Munch"
    /\ k \in DOMAIN config.ns.v
    /\ config.ns.v[k].t = "Munch"
    /\ j \in DOMAIN config.ns.v[k].v
    /\ config' = [config EXCEPT !.ns.v[k].v = WithoutKey(@, j),
                                !.writes = @ + 1]
    /\ UNCHANGED <<layer, registry, dataset, plugin, enhancer, norm, metric,
                   datamodule>>

\* Nothing loaded yet; the file at the path holds any of the contents.
InitConfig ==
    /\ \E content \in FileContents :
         config = [status |-> "run",
                   files  |-> [p \in {ConfigPath} |-> content],
                   last   |-> NoLoad,
                   ns     |-> None,
                   writes |-> 0]
    /\ layer = NoLayer
    /\ registry = Idle
    /\ dataset = Idle
    /\ plugin = Idle
    /\ enhancer = Idle
    /\ norm = Idle
    /\ metric = Idle
    /\ datamodule = Idle

NextConfig ==
    \/ \E cfg \in ConfigArgs : LoadConfig(cfg)
    \/ \E k \in Keys : SetAttr(k)
    \/ \E k \in Keys : DelAttr(k)
    \/ \E k \in Keys, j \in Keys : SetNestedAttr(k, j)
    \/ \E k \in Keys, j \in Keys : DelNestedAttr(k, j)

SpecConfig == InitConfig /\ [][NextConfig]_vars

\* One step of an attribute path: the attribute name, or the type found at
\* the end of the path with the value when it is not a namespace.
PathKey(k) == [key |-> k, t |-> "attribute", val |-> None]

PathEnd(x) ==
    [key |-> "", t |-> x.t,
     val |-> IF x.t \in {"Munch", "FrozenMunch"} THEN None ELSE x]

RECURSIVE Fields(_)
\* The fields reachable by attribute access, as <<key, ...>> paths with the
\* value found there: attributes exist on a Munch only, not on a dict.
Fields(x) ==
    IF x.t \notin {"Munch", "FrozenMunch"} THEN {<<PathEnd(x)>>}
    ELSE {<<PathEnd(x)>>}
            \cup UNION {{<<PathKey(k)>> \o p : p \in Fields(x.v[k])} : k \in DOMAIN x.v}

\* load_config was called with the path and the file holds a mapping.
LoadedMappingFromFile ==
    /\ config.status = "run"
    /\ config.last.outcome # "none"
    /\ config.last.config = PyStr(ConfigPath)
    /\ config.files[ConfigPath].t = "dict"

\* C8: load_config of a path whose file holds the mapping d and load_config
\* of the dict d return namespaces with the same accessible fields, nested
\* mappings included.
C8_FileAndDictAgree ==
    LoadedMappingFromFile =>
        LET d      == config.files[ConfigPath]
            fromD  == LoadConfigResult(config.files, d)
        IN /\ config.last.outcome = "returned"
           /\ fromD.outcome = "returned"
           /\ Fields(config.last.result) = Fields(fromD.result)
           /\ config.last.result.t = "Munch"

\* C8 witness: a file with a nested mapping has been loaded.
C8_Witness ==
    /\ LoadedMappingFromFile
    /\ config.last.outcome = "returned"
    /\ "a" \in DOMAIN config.last.result.v
    /\ config.last.result.v["a"] = [t |-> "Munch", v |-> [k \in {"a"} |-> PyInt(1)]]

\* A namespace was returned and is held.
NamespaceHeld ==
    /\ config.status = "run"
    /\ config.last.outcome = "returned"
    /\ config.last.result.t \in {"Munch", "FrozenMunch"}

C10_FailsOnNonMapping ==
    (/\ config.status = "run"
     /\ config.last.outcome # "none"
     /\ config.last.config = PyStr(ConfigPath)
     /\ config.files[ConfigPath].t # "dict")
        => config.last.outcome \in {"AssertionError", "ValueError"}

\* load_config was called with a config that is neither a str nor a dict.
CalledWithOtherType ==
    /\ config.status = "run"
    /\ config.last.outcome # "none"
    /\ config.last.config.t \notin {"str", "dict"}

\* C11: load_config called with a config that is neither a string path nor
\* a dict raises ValueError, without loading a file and without returning a
\* namespace.
C11_ValueErrorOnOtherType ==
    CalledWithOtherType =>
        /\ config.last.outcome = "ValueError"
        /\ ~config.last.loaded
        /\ config.last.result = None
        /\ config.ns = None

\* C11 witness: load_config was called with a list while the file at the
\* path holds a mapping, and it raised ValueError.
C11_Witness ==
    /\ CalledWithOtherType
    /\ config.last.config = PyList(<<>>)
    /\ config.files[ConfigPath].t = "dict"
    /\ config.last.outcome = "ValueError"

\* ---------------------------------------------------------- End2EndEnhancer

\* Most children a backbone has.
MaxChildren == 3

\* A module is named; a child of the backbone also has its index.
Mod(name, idx) == [name |-> name, idx |-> idx]

BackboneModule == Mod("backbone", -1)

NeckModule == Mod("neck", -1)

HeadModule == Mod("head", -1)

Child(idx) == Mod("child", idx)

\* A tensor is known by the modules it went through, in order.
Tensor(h) == [t |-> "Tensor", v |-> h]

\* The batch x and its ground truth y.
InputX == Tensor(<<Mod("x", -1)>>)

TargetY == Tensor(<<Mod("y", -1)>>)

\* m(x): the output of the module m for the input x.
Apply(m, x) == Tensor(Append(x.v, m))

\* No call yet / nothing returned.
NoTensor == [t |-> "None", v |-> <<>>]

RECURSIVE Ascending(_)
\* The indexes of S as an increasing sequence.
Ascending(S) ==
    IF S = {} THEN <<>>
    ELSE LET m == CHOOSE i \in S : \A j \in S : j <= i
         IN Append(Ascending(S \ {m}), m)

\* The elements of a sequence.
Range(q) == {q[i] : i \in DOMAIN q}

\* The out_indexes a caller passes or the model holds: None, an int (-1 or
\* an index, also one past the children), a list or a tuple of indexes.
OutIndexes ==
    {None} \cup {PyInt(k) : k \in -1..MaxChildren}
    \cup {[t |-> ty, v |-> Ascending(S)] :
            ty \in {"list", "tuple"}, S \in SUBSET (0..(MaxChildren - 1))}

\* The names of the metrics of a model.
MetricNames == {"psnr", "ssim"}

\* self.metrics: a list of metrics.
MetricLists ==
    {<<>>} \cup {<<a>> : a \in MetricNames}
    \cup {<<a, b>> : a \in MetricNames, b \in MetricNames}

\* The absent component: the attribute is None.
NoModule == Mod("None", -1)

\* with_backbone / with_neck / with_head: the attribute is not None.
With(component) == component # NoModule

\* forward_infer with the head applied before the neck.
ForwardInferHeadFirst(e, x) ==
    IF ~With(e.backbone)
    THEN [outcome |-> "TypeError", y_hat |-> NoTensor, applied |-> <<>>]
    ELSE LET y1 == Apply(BackboneModule, x)
             y2 == IF With(e.head) THEN Apply(HeadModule, y1) ELSE y1
             y3 == IF With(e.neck) THEN Apply(NeckModule, y2) ELSE y2
         IN [outcome |-> "returned", y_hat |-> y3,
             applied |-> SubSeq(y3.v, Len(x.v) + 1, Len(y3.v))]

\* forward_infer(x): self.backbone(x), where calling None is a TypeError,
\* then the neck and the head when defined. applied lists the modules called.
ForwardInferResult(e, x) ==
    IF ~With(e.backbone)
    THEN [outcome |-> "TypeError", y_hat |-> NoTensor, applied |-> <<>>]
    ELSE LET y1 == Apply(BackboneModule, x)
             y2 == IF With(e.neck) THEN Apply(NeckModule, y1) ELSE y1
             y3 == IF With(e.head) THEN Apply(HeadModule, y2) ELSE y2
         IN [outcome |-> "returned", y_hat |-> y3,
             applied |-> SubSeq(y3.v, Len(x.v) + 1, Len(y3.v))]

\* A dict keeps its keys in insertion order: a sequence of [k, v] entries.
\* d[k] = v replaces the value of an existing key where it stands and puts a
\* new key last.
DictSet(d, k, v) ==
    IF \E i \in DOMAIN d : d[i].k = k
    THEN [i \in DOMAIN d |-> IF d[i].k = k THEN [k |-> k, v |-> v] ELSE d[i]]
    ELSE Append(d, [k |-> k, v |-> v])

RECURSIVE DictUpdate(_, _)
\* d | ms: the entries of d, then those of ms.
DictUpdate(d, ms) ==
    IF ms = <<>> THEN d
    ELSE DictUpdate(DictSet(d, ms[1].k, ms[1].v), Tail(ms))

\* self.loss(y_hat, y) and m(y_hat, y): the value of a loss or metric.
Measure(name, y_hat, y) == [fn |-> name, y_hat |-> y_hat, y |-> y]

RECURSIVE MetricsDict(_, _, _)
\* {m.name: m(y_hat, y) for m in self.metrics}
MetricsDict(metrics, y_hat, y) ==
    IF metrics = <<>> THEN <<>>
    ELSE LET m == metrics[Len(metrics)]
         IN DictSet(MetricsDict(SubSeq(metrics, 1, Len(metrics) - 1), y_hat, y),
                    m, Measure(m, y_hat, y))

\* Nothing to report.
NoMetrics == [t |-> "None", v |-> <<>>]

\* forward_train(x, y): the prediction of forward_infer; the metrics start
\* empty, get the loss when the model has one and the named metrics when it
\* has some, and are None when still empty.
ForwardTrainResult(e, x, y) ==
    LET inf == ForwardInferResult(e, x)
    IN IF inf.outcome # "returned"
       THEN [outcome |-> inf.outcome, y_hat |-> NoTensor, metrics |-> NoMetrics,
             applied |-> inf.applied]
       ELSE LET y_hat == inf.y_hat
                m0 == IF e.with_loss
                      THEN DictSet(<<>>, "loss", Measure("loss", y_hat, y))
                      ELSE <<>>
                m1 == IF e.with_metrics
                      THEN DictUpdate(m0, MetricsDict(e.metrics, y_hat, y))
                      ELSE m0
            IN [outcome |-> "returned", y_hat |-> y_hat,
                metrics |-> IF Len(m1) # 0 THEN [t |-> "dict", v |-> m1] ELSE NoMetrics,
                applied |-> inf.applied]

\* An iteration of the loop of forward_features that never returns early.
FeaturesStepNoReturn(out_indexes, idx, st) ==
    LET x == Apply(Child(idx), st.x)
        called == Append(st.applied, Child(idx))
    IN IF out_indexes.t \in {"tuple", "list"} /\ idx \in Range(out_indexes.v)
       THEN IF st.y_hat.t = "list"
            THEN [st EXCEPT !.x = x, !.applied = called,
                            !.y_hat = PyList(Append(st.y_hat.v, x))]
            ELSE [st EXCEPT !.x = x, !.applied = called,
                            !.outcome = "AttributeError"]
       ELSE [st EXCEPT !.x = x, !.applied = called, !.y_hat = x]

\* An iteration of the loop of forward_features for the child idx: the
\* child is applied to x; its output is appended to y_hat when out_indexes
\* is a tuple or list holding idx (y_hat must still be a list: a tensor has
\* no append), is returned when out_indexes is the int idx, and else
\* replaces y_hat.
FeaturesStep(out_indexes, idx, st) ==
    LET x == Apply(Child(idx), st.x)
        called == Append(st.applied, Child(idx))
    IN IF out_indexes.t \in {"tuple", "list"} /\ idx \in Range(out_indexes.v)
       THEN IF st.y_hat.t = "list"
            THEN [st EXCEPT !.x = x, !.applied = called,
                            !.y_hat = PyList(Append(st.y_hat.v, x))]
            ELSE [st EXCEPT !.x = x, !.applied = called,
                            !.outcome = "AttributeError"]
       ELSE IF out_indexes.t = "int" /\ idx = out_indexes.v
       THEN [st EXCEPT !.x = x, !.applied = called, !.y_hat = x,
                       !.outcome = "returned"]
       ELSE [st EXCEPT !.x = x, !.applied = called, !.y_hat = x]

RECURSIVE FeaturesLoop(_, _, _, _)
\* for idx, m in enumerate(self.backbone.children()), from idx on, until a
\* return or an error.
FeaturesLoop(children, out_indexes, idx, st) ==
    IF idx >= children \/ st.outcome # "running" THEN st
    ELSE FeaturesLoop(children, out_indexes, idx + 1,
                      FeaturesStep(out_indexes, idx, st))

\* forward_features without the assertion on the backbone.
ForwardFeaturesUnchecked(e, x, arg) ==
    IF ~With(e.backbone)
    THEN [outcome |-> "AttributeError", y_hat |-> NoTensor, applied |-> <<>>,
          out_indexes |-> arg]
    ELSE LET out_indexes == IF arg = None THEN e.out_indexes ELSE arg
             st == FeaturesLoop(e.children, out_indexes, 0,
                                [x |-> x, y_hat |-> PyList(<<>>), applied |-> <<>>,
                                 outcome |-> "running"])
         IN [outcome |-> IF st.outcome = "running" THEN "returned" ELSE st.outcome,
             y_hat |-> IF st.outcome = "AttributeError" THEN NoTensor ELSE st.y_hat,
             applied |-> st.applied, out_indexes |-> out_indexes]

\* forward_features(x, out_indexes): the model's out_indexes stand in for
\* None; the backbone is asserted; y_hat starts as the empty list and the
\* loop runs over the children.
ForwardFeaturesResult(e, x, arg) ==
    LET out_indexes == IF arg = None THEN e.out_indexes ELSE arg
    IN IF ~With(e.backbone)
       THEN [outcome |-> "AssertionError", y_hat |-> NoTensor, applied |-> <<>>,
             out_indexes |-> out_indexes]
       ELSE LET st == FeaturesLoop(e.children, out_indexes, 0,
                                   [x |-> x, y_hat |-> PyList(<<>>), applied |-> <<>>,
                                    outcome |-> "running"])
            IN [outcome |-> IF st.outcome = "running" THEN "returned" ELSE st.outcome,
                y_hat |-> IF st.outcome = "AttributeError" THEN NoTensor ELSE st.y_hat,
                applied |-> st.applied, out_indexes |-> out_indexes]

\* No forward call yet.
NoForward ==
    [call |-> "none", outcome |-> "none", y_hat |-> NoTensor,
     metrics |-> NoMetrics, applied |-> <<>>, out_indexes |-> None]

\* A call of forward_train(x, y).
ForwardTrain ==
    /\ enhancer.status = "run"
    /\ LET r == ForwardTrainResult(enhancer, InputX, TargetY)
       IN enhancer' = [enhancer EXCEPT
                          !.last = [call |-> "forward_train", outcome |-> r.outcome,
                                    y_hat |-> r.y_hat, metrics |-> r.metrics,
                                    applied |-> r.applied, out_indexes |-> None]]
    /\ UNCHANGED <<layer, registry, dataset, plugin, config, norm, metric,
                   datamodule>>

\* A call of forward_infer(x).
ForwardInfer ==
    /\ enhancer.status = "run"
    /\ LET r == ForwardInferResult(enhancer, InputX)
       IN enhancer' = [enhancer EXCEPT
                          !.last = [call |-> "forward_infer", outcome |-> r.outcome,
                                    y_hat |-> r.y_hat, metrics |-> NoMetrics,
                                    applied |-> r.applied, out_indexes |-> None]]
    /\ UNCHANGED <<layer, registry, dataset, plugin, config, norm, metric,
                   datamodule>>

\* A call of forward_features(x, out_indexes).
ForwardFeatures(arg) ==
    /\ enhancer.status = "run"
    /\ LET r == ForwardFeaturesResult(enhancer, InputX, arg)
       IN enhancer' = [enhancer EXCEPT
                          !.last = [call |-> "forward_features", outcome |-> r.outcome,
                                    y_hat |-> r.y_hat, metrics |-> NoMetrics,
                                    applied |-> r.applied,
                                    out_indexes |-> r.out_indexes]]
    /\ UNCHANGED <<layer, registry, dataset, plugin, config, norm, metric,
                   datamodule>>

\* The out_indexes a model holds.
ModelOutIndexes == {PyInt(-1), PyList(<<0>>)}

\* A constructed model: __init__ leaves backbone, neck and head None and a
\* subclass defines those it has; the model has a loss or not and metrics or
\* not.
InitEnhancer ==
    /\ \E backbone \in {NoModule, BackboneModule}, neck \in {NoModule, NeckModule},
          head \in {NoModule, HeadModule}, children \in 0..MaxChildren,
          with_loss \in BOOLEAN, with_metrics \in BOOLEAN,
          metrics \in MetricLists, out_indexes \in ModelOutIndexes :
         /\ backbone = NoModule => children = 0
         /\ ~with_metrics => metrics = <<>>
         /\ enhancer = [status |-> "run", backbone |-> backbone, neck |-> neck,
                        head |-> head, children |-> children,
                        with_loss |-> with_loss, with_metrics |-> with_metrics,
                        metrics |-> metrics, out_indexes |-> out_indexes,
                        last |-> NoForward]
    /\ layer = NoLayer
    /\ registry = Idle
    /\ dataset = Idle
    /\ plugin = Idle
    /\ config = Idle
    /\ norm = Idle
    /\ metric = Idle
    /\ datamodule = Idle

NextEnhancer ==
    \/ ForwardTrain
    \/ ForwardInfer
    \/ \E arg \in OutIndexes : ForwardFeatures(arg)

SpecEnhancer == InitEnhancer /\ [][NextEnhancer]_vars

\* forward_features was called.
FeaturesCalled ==
    /\ enhancer.status = "run"
    /\ enhancer.last.call = "forward_features"

\* C12: forward_features fails with an assertion when no backbone is
\* defined, and no module has been applied when it fails.
C12_AssertsBackbone ==
    (FeaturesCalled /\ ~With(enhancer.backbone)) =>
        /\ enhancer.last.outcome = "AssertionError"
        /\ enhancer.last.applied = <<>>
        /\ enhancer.last.y_hat = NoTensor

\* C12 witness: forward_features was called with a list of indexes on a
\* model that has a neck and a head and no backbone.
C12_Witness ==
    /\ FeaturesCalled
    /\ ~With(enhancer.backbone)
    /\ With(enhancer.neck)
    /\ With(enhancer.head)
    /\ enhancer.last.out_indexes = PyList(<<0, 1>>)
    /\ enhancer.last.outcome = "AssertionError"

\* forward_infer was called.
InferCalled ==
    /\ enhancer.status = "run"
    /\ enhancer.last.call = "forward_infer"

\* The components the model has, in the order backbone, neck, head.
PresentComponents ==
    (IF With(enhancer.backbone) THEN <<BackboneModule>> ELSE <<>>)
    \o (IF With(enhancer.neck) THEN <<NeckModule>> ELSE <<>>)
    \o (IF With(enhancer.head) THEN <<HeadModule>> ELSE <<>>)

\* C13: forward_infer of a model with a backbone calls exactly the present
\* components, each once, in the order backbone, neck, head, each on the
\* output of the one before (the backbone on x), and returns the last
\* output; an absent neck or head is skipped. The backbone is called
\* unconditionally: without one the call raises before anything is applied.
C13_InferOrder ==
    InferCalled =>
        IF With(enhancer.backbone)
        THEN /\ enhancer.last.outcome = "returned"
             /\ enhancer.last.applied = PresentComponents
             /\ enhancer.last.y_hat = Tensor(InputX.v \o PresentComponents)
        ELSE /\ enhancer.last.outcome = "TypeError"
             /\ enhancer.last.applied = <<>>

\* C13 witness: forward_infer returned on a model with a backbone and a
\* head and no neck.
C13_Witness ==
    /\ InferCalled
    /\ With(enhancer.backbone)
    /\ ~With(enhancer.neck)
    /\ With(enhancer.head)
    /\ enhancer.last.y_hat = Tensor(InputX.v \o <<BackboneModule, HeadModule>>)

\* forward_train returned.
TrainReturned ==
    /\ enhancer.status = "run"
    /\ enhancer.last.call = "forward_train"
    /\ enhancer.last.outcome = "returned"

\* C14 (as claimed): the metrics forward_train returns, when not None, are a
\* dictionary whose first key is `loss` with the configured loss of
\* (y_hat, y) as its value; they are None only when the model has neither a
\* loss nor a metric to report.
C14_LossIsFirstKey ==
    TrainReturned =>
        /\ enhancer.last.metrics # NoMetrics =>
              /\ enhancer.last.metrics.v[1].k = "loss"
              /\ enhancer.last.metrics.v[1].v
                    = Measure("loss", enhancer.last.y_hat, TargetY)
        /\ enhancer.last.metrics = NoMetrics =>
              /\ ~enhancer.with_loss
              /\ ~enhancer.with_metrics \/ enhancer.metrics = <<>>

\* The children 0 .. k of the backbone, in order.
ChildrenUpTo(k) == [i \in 1..(k + 1) |-> Child(i - 1)]

\* forward_features ran on a model with a backbone, with out_indexes (the
\* argument, or the model's when the argument is None) of the given types.
FeaturesRanWith(types) ==
    /\ FeaturesCalled
    /\ With(enhancer.backbone)
    /\ enhancer.last.out_indexes.t \in types

\* C15 (as claimed): with a tuple or list as out_indexes, forward_features
\* returns the list of the outputs of exactly the children whose index is in
\* out_indexes, in increasing index order, whichever indexes are listed.
C15_ListOfListedFeatures ==
    FeaturesRanWith({"tuple", "list"}) =>
        /\ enhancer.last.outcome = "returned"
        /\ LET listed == Ascending(Range(enhancer.last.out_indexes.v)
                                   \cap (0..(enhancer.children - 1)))
           IN enhancer.last.y_hat =
                 PyList([j \in DOMAIN listed |->
                           Tensor(InputX.v \o ChildrenUpTo(listed[j]))])

\* C16: with an int k as out_indexes, 0 <= k < number of children,
\* forward_features applies the children 0 .. k in order and no other, and
\* returns the output of child k; with -1 and at least one child it applies
\* all children and returns the output of the last.
C16_IntIndex ==
    FeaturesRanWith({"int"}) =>
        LET k == enhancer.last.out_indexes.v
            n == enhancer.children
        IN /\ (0 <= k /\ k < n) =>
                 /\ enhancer.last.outcome = "returned"
                 /\ enhancer.last.applied = ChildrenUpTo(k)
                 /\ enhancer.last.y_hat = Tensor(InputX.v \o ChildrenUpTo(k))
           /\ (k = -1 /\ n >= 1) =>
                 /\ enhancer.last.outcome = "returned"
                 /\ enhancer.last.applied = ChildrenUpTo(n - 1)
                 /\ enhancer.last.y_hat = Tensor(InputX.v \o ChildrenUpTo(n - 1))

\* C16 witness: forward_features(x, 1) on a backbone of three children
\* returned the output of child 1 after applying children 0 and 1.
C16_Witness ==
    /\ FeaturesRanWith({"int"})
    /\ enhancer.children = 3
    /\ enhancer.last.out_indexes = PyInt(1)
    /\ enhancer.last.applied = <<Child(0), Child(1)>>
    /\ enhancer.last.y_hat = Tensor(InputX.v \o <<Child(0), Child(1)>>)

\* ------------------------------------------- forward of the subspace family

\* The numbered variants AttentionSubspaceBlueprintSeparableConv2d1 .. 13.
VariantClasses ==
    <<"AttentionSubspaceBlueprintSeparableConv2d1",
      "AttentionSubspaceBlueprintSeparableConv2d2",
      "AttentionSubspaceBlueprintSeparableConv2d3",
      "AttentionSubspaceBlueprintSeparableConv2d4",
      "AttentionSubspaceBlueprintSeparableConv2d5",
      "AttentionSubspaceBlueprintSeparableConv2d6",
      "AttentionSubspaceBlueprintSeparableConv2d7",
      "AttentionSubspaceBlueprintSeparableConv2d8",
      "AttentionSubspaceBlueprintSeparableConv2d9",
      "AttentionSubspaceBlueprintSeparableConv2d10",
      "AttentionSubspaceBlueprintSeparableConv2d11",
      "AttentionSubspaceBlueprintSeparableConv2d12",
      "AttentionSubspaceBlueprintSeparableConv2d13">>

\* The subspace family: the two classes with a constructor and the variants.
FamilyClasses == ConvClasses \cup Range(VariantClasses)

\* The statements of forward of each numbered variant, in program order (the
\* commented-out statements left out); act1 and act2 stand for the statement
\* guarded by `if self.actN is not None`.
VariantForward ==
    <<<<"pw_conv1", "pw_conv2", "dw_conv">>,
      <<"pw_conv1", "act1", "pw_conv2", "dw_conv">>,
      <<"pw_conv1", "pw_conv2", "act2", "dw_conv">>,
      <<"pw_conv1", "act1", "pw_conv2", "act2", "dw_conv">>,
      <<"pw_conv1", "simam", "pw_conv2", "dw_conv">>,
      <<"pw_conv1", "pw_conv2", "simam", "dw_conv">>,
      <<"pw_conv1", "pw_conv2", "dw_conv", "simam">>,
      <<"pw_conv1", "simam", "act1", "pw_conv2", "dw_conv">>,
      <<"pw_conv1", "simam", "pw_conv2", "act2", "dw_conv">>,
      <<"pw_conv1", "act1", "pw_conv2", "simam", "dw_conv">>,
      <<"pw_conv1", "pw_conv2", "simam", "act2", "dw_conv">>,
      <<"pw_conv1", "act1", "pw_conv2", "act2", "dw_conv", "simam">>,
      <<"pw_conv1", "simam", "act1", "pw_conv2", "act2", "dw_conv">>>>

\* The statements of forward of every class of the family.
ClassForward ==
    [cls \in FamilyClasses |->
        IF cls = "SubspaceBlueprintSeparableConv2d"
        THEN <<"pw_conv1", "act1", "pw_conv2", "act2", "dw_conv">>
        ELSE IF cls = "AttentionSubspaceBlueprintSeparableConv2d"
        THEN <<"pw_conv1", "simam", "act1", "pw_conv2", "act2", "dw_conv">>
        ELSE VariantForward[CHOOSE i \in DOMAIN VariantClasses : VariantClasses[i] = cls]]

\* A forward that runs act2 after the depthwise convolution.
ForwardStatementsActLast(cls) ==
    LET s == ClassForward[cls]
    IN SelectSeq(s, LAMBDA stage : stage # "act2") \o <<"act2">>

\* A forward that runs the depthwise convolution before pw_conv2.
ForwardStatementsDepthwiseEarly(cls) ==
    LET s == SelectSeq(ClassForward[cls], LAMBDA stage : stage # "dw_conv")
    IN <<s[1], "dw_conv">> \o Tail(s)

\* A forward without the two activation statements.
ForwardStatementsNoActivations(cls) ==
    SelectSeq(ClassForward[cls], LAMBDA stage : stage \notin {"act1", "act2"})

\* The statements of forward of the class.
ForwardStatements(cls) == ClassForward[cls]

\* The kinds of activation layer a caller passes.
ActKinds == {0, 1}

\* act1 / act2 as the constructor leaves them: None or an activation layer.
Activations(slot) == {NoModule} \cup {Mod(slot, kind) : kind \in ActKinds}

\* One statement of forward on the value y: a convolution or simam is
\* applied; an activation is applied when it is not None.
RunStatement(obj, stage, y) ==
    IF stage \in {"act1", "act2"}
    THEN IF obj[stage] # NoModule THEN Apply(obj[stage], y) ELSE y
    ELSE Apply(Mod(stage, -1), y)

RECURSIVE RunForward(_, _, _)
\* The statements run in order, each on the value of the one before.
RunForward(obj, statements, y) ==
    IF statements = <<>> THEN y
    ELSE RunForward(obj, Tail(statements), RunStatement(obj, statements[1], y))

\* __init__ of a member of the family, seen by what forward uses: act1 and
\* act2 are None or an activation layer (SubspaceBlueprintSeparableConv2d
\* makes both from the one act it is given); the variants inherit the
\* constructor of AttentionSubspaceBlueprintSeparableConv2d.
ConstructMember(cls, act1, act2) ==
    /\ layer.status = "none"
    /\ cls = "SubspaceBlueprintSeparableConv2d" =>
          (act1 = NoModule) = (act2 = NoModule)
    /\ layer' = [status |-> "ok", cls |-> cls, act1 |-> act1, act2 |-> act2,
                 output |-> NoTensor]
    /\ UNCHANGED <<registry, dataset, plugin, config, enhancer, norm, metric,
                   datamodule>>

\* layer.forward(input)
Forward ==
    /\ layer.status = "ok"
    /\ layer' = [layer EXCEPT
                    !.output = RunForward(layer, ForwardStatements(layer.cls), InputX)]
    /\ UNCHANGED <<registry, dataset, plugin, config, enhancer, norm, metric,
                   datamodule>>

\* No layer has been constructed yet.
InitForward ==
    /\ layer = NoLayer
    /\ registry = Idle
    /\ dataset = Idle
    /\ plugin = Idle
    /\ config = Idle
    /\ enhancer = Idle
    /\ norm = Idle
    /\ metric = Idle
    /\ datamodule = Idle

NextForward ==
    \/ \E cls \in FamilyClasses, act1 \in Activations("act1"),
          act2 \in Activations("act2") : ConstructMember(cls, act1, act2)
    \/ Forward

SpecForward == InitForward /\ [][NextForward]_vars

\* forward of the constructed layer has returned.
ForwardReturned ==
    /\ layer.status = "ok"
    /\ "output" \in DOMAIN layer
    /\ layer.output # NoTensor

\* The stages the output went through after the input, by name.
StagesRun ==
    [i \in 1..(Len(layer.output.v) - 1) |-> layer.output.v[i + 1].name]

\* The stages are an instance of the pipeline: the stages of the slots
\* chosen, in slot order, the mandatory slots always among them.
InstanceOf(stages, slots, mandatory) ==
    \E chosen \in SUBSET DOMAIN slots :
       /\ mandatory \subseteq chosen
       /\ LET at == Ascending(chosen)
          IN stages = [i \in DOMAIN at |-> slots[at[i]]]

\* C17 (as claimed): the forward pass of every numbered variant is an
\* instance of pointwise-reduce, [attention], [activation 1],
\* pointwise-expand, [attention], [activation 2], depthwise-conv.
C17_OnePipeline ==
    (ForwardReturned /\ layer.cls \in Range(VariantClasses)) =>
        InstanceOf(StagesRun,
                   <<"pw_conv1", "simam", "act1", "pw_conv2", "simam", "act2",
                     "dw_conv">>,
                   {1, 4, 7})

\* C17 (amended): the forward pass of every numbered variant is an instance
\* of pointwise-reduce, [attention], [activation 1], pointwise-expand,
\* [attention], [activation 2], depthwise-conv, [attention]: the attention
\* step has a third position, after the depthwise convolution.
C17_PipelineWithTrailingAttention ==
    (ForwardReturned /\ layer.cls \in Range(VariantClasses)) =>
        InstanceOf(StagesRun,
                   <<"pw_conv1", "simam", "act1", "pw_conv2", "simam", "act2",
                     "dw_conv", "simam">>,
                   {1, 4, 7})

\* C17 witness: variant 12 with both activations has run its forward pass,
\* ending with the attention step after the depthwise convolution.
C17_Witness ==
    /\ ForwardReturned
    /\ layer.cls = "AttentionSubspaceBlueprintSeparableConv2d12"
    /\ StagesRun = <<"pw_conv1", "act1", "pw_conv2", "act2", "dw_conv", "simam">>

\* How often the stage was run.
TimesRun(stage) == Cardinality({i \in DOMAIN StagesRun : StagesRun[i] = stage})

\* C18: in the forward pass of every member of the subspace family,
\* pw_conv1, pw_conv2 and dw_conv are each applied exactly once and in that
\* order; nothing else than the attention step, act1 and act2 is applied,
\* act1 only between pw_conv1 and pw_conv2 and act2 only between pw_conv2
\* and dw_conv, each at most once, and the attention step at most once.
C18_ConvsOnceInOrder ==
    ForwardReturned =>
        /\ SelectSeq(StagesRun, LAMBDA st : st \in {"pw_conv1", "pw_conv2", "dw_conv"})
              = <<"pw_conv1", "pw_conv2", "dw_conv">>
        /\ Range(StagesRun) \subseteq
              {"pw_conv1", "pw_conv2", "dw_conv", "simam", "act1", "act2"}
        /\ StagesRun[1] = "pw_conv1"
        /\ TimesRun("simam") <= 1
        /\ TimesRun("act1") <= 1
        /\ TimesRun("act2") <= 1
        /\ SelectSeq(StagesRun, LAMBDA st : st # "simam")
              \in {<<"pw_conv1", "pw_conv2", "dw_conv">>,
                   <<"pw_conv1", "act1", "pw_conv2", "dw_conv">>,
                   <<"pw_conv1", "pw_conv2", "act2", "dw_conv">>,
                   <<"pw_conv1", "act1", "pw_conv2", "act2", "dw_conv">>}
        /\ layer.output.v[1] = InputX.v[1]

\* C18 witness: a variant with the attention step after pw_conv2 and act2
\* present has run its forward pass.
C18_Witness ==
    /\ ForwardReturned
    /\ layer.cls = "AttentionSubspaceBlueprintSeparableConv2d11"
    /\ layer.act2 # NoModule
    /\ StagesRun = <<"pw_conv1", "pw_conv2", "simam", "act2", "dw_conv">>


\* What forward of class cls returns on the input, with the activations of
\* the constructed layer.
OutputOf(cls) == RunForward(layer, ForwardStatements(cls), InputX)

BothActivationsConfigured ==
    /\ layer.act1 # NoModule
    /\ layer.act2 # NoModule

\* C29: for every act1/act2 configuration, forward of variant 13 returns
\* what forward of its base class AttentionSubspaceBlueprintSeparableConv2d
\* returns on the same layers (the same stages in the same order); and with
\* both activations configured, forward of a variant 1..13 differs from
\* forward of every other variant.
C29_Variant13IsBaseOthersDistinct ==
    ForwardReturned =>
       /\ layer.cls \in {VariantClasses[13],
                         "AttentionSubspaceBlueprintSeparableConv2d"} =>
             /\ layer.output = OutputOf(VariantClasses[13])
             /\ layer.output = OutputOf("AttentionSubspaceBlueprintSeparableConv2d")
       /\ BothActivationsConfigured =>
             \A i, j \in DOMAIN VariantClasses :
                (layer.cls = VariantClasses[i] /\ i # j) =>
                    layer.output # OutputOf(VariantClasses[j])

\* Forward of variant 13 has returned with both activations configured:
\* simam, act1, pw_conv2, act2 and dw_conv followed pw_conv1.
C29_Witness ==
    /\ ForwardReturned
    /\ layer.cls = VariantClasses[13]
    /\ BothActivationsConfigured
    /\ StagesRun = <<"pw_conv1", "simam", "act1", "pw_conv2", "act2", "dw_conv">>
    /\ layer.output = OutputOf("AttentionSubspaceBlueprintSeparableConv2d")

\* ---------------------------------------------------------------- EvoNorm

\* The momentum of a layer is a multiple of 1 / MomDen.
MomDen == 2

\* Most forward calls on one layer.
MaxForwards == 2

RECURSIVE Gcd(_, _)
Gcd(a, b) == IF b = 0 THEN a ELSE Gcd(b, a % b)

Abs(a) == IF a < 0 THEN -a ELSE a

\* The number a / b (b # 0) in lowest terms, <<numerator, denominator>> with a
\* positive denominator: the floating-point values are kept exact.
Rat(a, b) ==
    LET g == Gcd(Abs(a), Abs(b))
        sgn == IF b < 0 THEN -1 ELSE 1
    IN <<sgn * (a \div g), sgn * (b \div g)>>

RatAdd(q, r) == Rat(q[1] * r[2] + r[1] * q[2], q[2] * r[2])

RatMul(q, r) == Rat(q[1] * r[1], q[2] * r[2])

RECURSIVE Product(_)
\* The product of the sizes of a shape.
Product(shape) ==
    IF shape = <<>> THEN 1 ELSE shape[1] * Product(Tail(shape))

\* The values of the elements of an input.
NormValues == {0, 2}

\* The shapes of the inputs: 4-dimensional ones of one channel (one with a
\* single value per channel) and shapes of 1, 3 and 5 dimensions.
NormShapes ==
    {<<1, 1, 1, 1>>, <<2, 1, 1, 1>>, <<1, 1, 1, 2>>,
     <<2>>, <<1, 1, 2>>, <<1, 1, 1, 1, 2>>}

\* The inputs x of forward: a shape and the elements in row-major order.
NormInputs ==
    UNION {{[shape |-> sh, data |-> d] : d \in [1..Product(sh) -> NormValues]} :
             sh \in NormShapes}

\* x.dim()
Dim(x) == Len(x.shape)

\* x.numel()
Numel(x) == Len(x.data)

\* x.var(dim = (0, 2, 3), unbiased = False, keepdim = True) of a one-channel
\* input: the mean of the squares minus the square of the mean.
BiasedVar(x) ==
    LET n  == Numel(x)
        s1 == SumTo(x.data, n)
        s2 == SumTo([i \in 1..n |-> x.data[i] * x.data[i]], n)
    IN Rat(n * s2 - s1 * s1, n * n)

\* No variance taken.
NoVar == <<0, 0>>

\* What forward returns, kept as the operands of its expression: the input,
\* whether the activation branch ran, and the variance that branch takes
\* the maximum with.
NormOutput(x, apply_act, var) ==
    [x |-> x, act |-> apply_act, var |-> IF apply_act THEN var ELSE NoVar]

NoNormOutput ==
    [x |-> [shape |-> <<>>, data |-> <<>>], act |-> FALSE, var |-> NoVar]

\* var.detach() * momentum * (n / (n - 1)) + running_var * (1 - momentum)
RunningVarUpdate(var, momentum, n, running_var) ==
    RatAdd(RatMul(RatMul(var, momentum), Rat(n[1], n[1] - n[2])),
           RatMul(running_var, RatAdd(<<1, 1>>, RatMul(<<-1, 1>>, momentum))))

\* A forward that asserts the dimension only after the statistics are taken.
BatchForwardLateAssert(obj, x) ==
    LET n == Rat(Numel(x), 1)
    IN IF obj.training /\ n[1] = n[2]
       THEN [outcome |-> "ZeroDivisionError", running_var |-> obj.running_var,
             var |-> BiasedVar(x), out |-> NoNormOutput]
       ELSE LET var == IF obj.training THEN BiasedVar(x) ELSE obj.running_var
                rv  == IF obj.training
                       THEN RunningVarUpdate(var, obj.momentum, n, obj.running_var)
                       ELSE obj.running_var
            IN IF Dim(x) # 4
               THEN [outcome |-> "AssertionError", running_var |-> rv,
                     var |-> var, out |-> NoNormOutput]
               ELSE [outcome |-> "returned", running_var |-> rv, var |-> var,
                     out |-> NormOutput(x, obj.apply_act, var)]

\* A forward that tracks the batch statistics in evaluation mode too.
BatchForwardEvalTracks(obj, x) ==
    IF Dim(x) # 4
    THEN [outcome |-> "AssertionError", running_var |-> obj.running_var,
          var |-> NoVar, out |-> NoNormOutput]
    ELSE LET n == Rat(Numel(x), x.shape[2])
         IN IF n[1] = n[2]
            THEN [outcome |-> "ZeroDivisionError", running_var |-> obj.running_var,
                  var |-> BiasedVar(x), out |-> NoNormOutput]
            ELSE LET var == BiasedVar(x)
                 IN [outcome |-> "returned",
                     running_var |-> RunningVarUpdate(var, obj.momentum, n,
                                                      obj.running_var),
                     var |-> IF obj.training THEN var ELSE obj.running_var,
                     out |-> NormOutput(x, obj.apply_act,
                                        IF obj.training THEN var ELSE obj.running_var)]

\* A forward that updates running_var inside the activation branch only.
BatchForwardUpdateInAct(obj, x) ==
    IF Dim(x) # 4
    THEN [outcome |-> "AssertionError", running_var |-> obj.running_var,
          var |-> NoVar, out |-> NoNormOutput]
    ELSE IF obj.training
    THEN LET var == BiasedVar(x)
             n   == Rat(Numel(x), x.shape[2])
         IN IF n[1] = n[2]
            THEN [outcome |-> "ZeroDivisionError", running_var |-> obj.running_var,
                  var |-> var, out |-> NoNormOutput]
            ELSE [outcome |-> "returned",
                  running_var |-> IF obj.apply_act
                                  THEN RunningVarUpdate(var, obj.momentum, n,
                                                        obj.running_var)
                                  ELSE obj.running_var,
                  var |-> var, out |-> NormOutput(x, obj.apply_act, var)]
    ELSE [outcome |-> "returned", running_var |-> obj.running_var,
          var |-> obj.running_var,
          out |-> NormOutput(x, obj.apply_act, obj.running_var)]

\* EvoNormBatch2d.forward(x): the input must be 4-dimensional; in training
\* mode var is the batch variance, n = x.numel() / x.shape[1] the number of
\* values per channel (n / (n - 1) divides by zero when n is 1) and
\* running_var is overwritten with the update; in evaluation mode var is
\* running_var. The activation branch, when applied, uses var.
EvoNormBatchForward(obj, x) ==
    IF Dim(x) # 4
    THEN [outcome |-> "AssertionError", running_var |-> obj.running_var,
          var |-> NoVar, out |-> NoNormOutput]
    ELSE IF obj.training
    THEN LET var == BiasedVar(x)
             n   == Rat(Numel(x), x.shape[2])
         IN IF n[1] = n[2]
            THEN [outcome |-> "ZeroDivisionError", running_var |-> obj.running_var,
                  var |-> var, out |-> NoNormOutput]
            ELSE [outcome |-> "returned",
                  running_var |-> RunningVarUpdate(var, obj.momentum, n,
                                                   obj.running_var),
                  var |-> var, out |-> NormOutput(x, obj.apply_act, var)]
    ELSE [outcome |-> "returned", running_var |-> obj.running_var,
          var |-> obj.running_var,
          out |-> NormOutput(x, obj.apply_act, obj.running_var)]

\* EvoNormSample2d.forward(x): the input must be 4-dimensional and its
\* channels a multiple of groups; the layer has no buffer.
EvoNormSampleForward(obj, x) ==
    IF Dim(x) # 4
    THEN [outcome |-> "AssertionError", running_var |-> obj.running_var,
          var |-> NoVar, out |-> NoNormOutput]
    ELSE IF x.shape[2] % obj.groups # 0
    THEN [outcome |-> "AssertionError", running_var |-> obj.running_var,
          var |-> NoVar, out |-> NoNormOutput]
    ELSE [outcome |-> "returned", running_var |-> obj.running_var,
          var |-> NoVar, out |-> NormOutput(x, obj.apply_act, NoVar)]

NoNormCall ==
    [x |-> [shape |-> <<>>, data |-> <<>>], outcome |-> "none", var |-> NoVar,
     out |-> NoNormOutput, before |-> NoVar]

\* layer.forward(x) on the EvoNorm layer; before keeps the running_var the
\* call started with.
NormForward(x) ==
    /\ norm.status = "run"
    /\ norm.calls < MaxForwards
    /\ LET r == IF norm.cls = "EvoNormBatch2d"
                THEN EvoNormBatchForward(norm, x)
                ELSE EvoNormSampleForward(norm, x)
       IN norm' = [norm EXCEPT
                     !.running_var = r.running_var,
                     !.calls = @ + 1,
                     !.last = [x |-> x, outcome |-> r.outcome, var |-> r.var,
                               out |-> r.out, before |-> norm.running_var]]
    /\ UNCHANGED <<layer, registry, dataset, plugin, config, enhancer,
                   metric, datamodule>>

\* The groups an EvoNormSample2d is constructed with.
NormGroups == {1, 2}

\* __init__ for num_features = 1: weight and v are ones, bias is zero;
\* EvoNormBatch2d registers the buffer running_var (ones) and has a momentum,
\* EvoNormSample2d has groups and no buffer (running_var stays NoVar). The
\* layer is in training or in evaluation mode.
NewNorm(cls, training, apply_act, momentum, groups) ==
    [status      |-> "run",
     cls         |-> cls,
     training    |-> training,
     apply_act   |-> apply_act,
     momentum    |-> momentum,
     groups      |-> groups,
     weight      |-> <<1, 1>>,
     bias        |-> <<0, 1>>,
     v           |-> IF apply_act THEN <<1, 1>> ELSE NoVar,
     running_var |-> IF cls = "EvoNormBatch2d" THEN <<1, 1>> ELSE NoVar,
     calls       |-> 0,
     last        |-> NoNormCall]

\* The layers a caller constructs: an EvoNormBatch2d with a momentum, an
\* EvoNormSample2d with groups.
NewNorms ==
    {NewNorm("EvoNormBatch2d", training, apply_act, Rat(mn, MomDen), 1) :
        training \in BOOLEAN, apply_act \in BOOLEAN, mn \in 0..MomDen}
    \cup {NewNorm("EvoNormSample2d", training, apply_act, Rat(0, MomDen), groups) :
        training \in BOOLEAN, apply_act \in BOOLEAN, groups \in NormGroups}

\* A constructed EvoNorm layer, no forward call yet.
InitNorm ==
    /\ norm \in NewNorms
    /\ layer = NoLayer
    /\ registry = Idle
    /\ dataset = Idle
    /\ plugin = Idle
    /\ config = Idle
    /\ enhancer = Idle
    /\ metric = Idle
    /\ datamodule = Idle

NextNorm == \E x \in NormInputs : NormForward(x)

SpecNorm == InitNorm /\ [][NextNorm]_vars

\* forward was called on the EvoNorm layer.
NormCalled ==
    /\ norm.status = "run"
    /\ norm.last.outcome # "none"

\* C21: forward of EvoNormBatch2d and of EvoNormSample2d rejects every input
\* that is not 4-dimensional with an assertion, before anything is computed
\* and with running_var as it was.
C21_RejectsNon4D ==
    (NormCalled /\ Dim(norm.last.x) # 4) =>
        /\ norm.last.outcome = "AssertionError"
        /\ norm.last.var = NoVar
        /\ norm.last.out = NoNormOutput
        /\ norm.running_var = norm.last.before

\* C21 witness: an EvoNormBatch2d in training mode whose running_var an
\* earlier call has moved rejects a 3-dimensional input.
C21_Witness ==
    /\ NormCalled
    /\ norm.cls = "EvoNormBatch2d"
    /\ norm.training
    /\ norm.calls = 2
    /\ norm.running_var # <<1, 1>>
    /\ Dim(norm.last.x) = 3
    /\ norm.last.outcome = "AssertionError"

\* The unbiased variance of the elements of x (more than one element).
UnbiasedVar(x) ==
    LET n  == Numel(x)
        s1 == SumTo(x.data, n)
        s2 == SumTo([i \in 1..n |-> x.data[i] * x.data[i]], n)
    IN Rat(n * s2 - s1 * s1, n * (n - 1))

\* momentum * variance + (1 - momentum) * previous
Mix(momentum, variance, previous) ==
    RatAdd(RatMul(momentum, variance),
           RatMul(Rat(momentum[2] - momentum[1], momentum[2]), previous))

\* forward was called on an EvoNormBatch2d with a 4-dimensional input.
BatchCalledOn4D ==
    /\ NormCalled
    /\ norm.cls = "EvoNormBatch2d"
    /\ Dim(norm.last.x) = 4

\* C30 (as claimed): in evaluation mode forward leaves running_var unchanged
\* and uses it as the variance; in training mode every forward call on a
\* 4-dimensional input returns with running_var updated to the
\* momentum-weighted mix of the batch variance and the previous running_var,
\* also when apply_act is False.
C30_RunningVarUpdate ==
    BatchCalledOn4D =>
        IF norm.training
        THEN /\ norm.last.outcome = "returned"
             /\ norm.running_var
                   = Mix(norm.momentum, UnbiasedVar(norm.last.x), norm.last.before)
        ELSE /\ norm.last.outcome = "returned"
             /\ norm.running_var = norm.last.before
             /\ norm.last.var = norm.last.before

\* C30 (amended): in evaluation mode forward leaves running_var unchanged and
\* uses it as the variance; in training mode a forward call on a
\* 4-dimensional input with more than one value per channel updates
\* running_var once, to the momentum-weighted mix of the (unbiased) batch
\* variance and the previous running_var, also when apply_act is False; on an
\* input with a single value per channel it raises ZeroDivisionError and
\* leaves running_var unchanged.
C30_RunningVarUpdateWhenDefined ==
    BatchCalledOn4D =>
        IF norm.training
        THEN IF Numel(norm.last.x) > norm.last.x.shape[2]
             THEN /\ norm.last.outcome = "returned"
                  /\ norm.running_var
                        = Mix(norm.momentum, UnbiasedVar(norm.last.x),
                              norm.last.before)
                  /\ norm.last.var = BiasedVar(norm.last.x)
             ELSE /\ norm.last.outcome = "ZeroDivisionError"
                  /\ norm.running_var = norm.last.before
        ELSE /\ norm.last.outcome = "returned"
             /\ norm.running_var = norm.last.before
             /\ norm.last.var = norm.last.before
             /\ norm.last.out.act => norm.last.out.var = norm.last.before

\* C30 witness: a training-mode layer without activation has moved
\* running_var from 1 to the mix with the variance 2 of the batch <<0, 2>>
\* at momentum 1/2.
C30_Witness ==
    /\ BatchCalledOn4D
    /\ norm.training
    /\ ~norm.apply_act
    /\ norm.momentum = <<1, 2>>
    /\ norm.last.x.data = <<0, 2>>
    /\ norm.last.before = <<1, 1>>
    /\ norm.running_var = <<3, 2>>


\* ------------------------------------------------ forward calls of the layers

\* Either a layer of the subspace family is to be constructed, or an EvoNorm
\* layer has been.
InitLayers ==
    /\ \/ layer = NoLayer /\ norm = Idle
       \/ layer = Idle /\ norm \in NewNorms
    /\ registry = Idle
    /\ dataset = Idle
    /\ plugin = Idle
    /\ config = Idle
    /\ enhancer = Idle
    /\ metric = Idle
    /\ datamodule = Idle

NextLayers ==
    \/ NextForward
    \/ NextNorm

SpecLayers == InitLayers /\ [][NextLayers]_vars

\* A forward call of the constructed subspace layer leaves its stored state
\* (class, activations) as it was.
ConvForwardKeepsState ==
    (layer.status = "ok" /\ layer'.status = "ok") =>
        /\ layer'.cls = layer.cls
        /\ layer'.act1 = layer.act1
        /\ layer'.act2 = layer.act2

\* A forward call of the EvoNorm layer leaves its parameters and its
\* hyperparameters as they were.
NormForwardKeepsParameters ==
    (norm.status = "run" /\ norm'.calls = norm.calls + 1) =>
        /\ norm'.weight = norm.weight
        /\ norm'.bias = norm.bias
        /\ norm'.v = norm.v
        /\ norm'.cls = norm.cls
        /\ norm'.training = norm.training
        /\ norm'.apply_act = norm.apply_act
        /\ norm'.momentum = norm.momentum
        /\ norm'.groups = norm.groups

\* A forward call of the EvoNorm layer leaves its buffer as it was.
NormForwardKeepsBuffer ==
    (norm.status = "run" /\ norm'.calls = norm.calls + 1) =>
        norm'.running_var = norm.running_var

MetricValues == {0, 2}

\* The number of elements of an input of the metric.
MetricNumel == 2

\* The inputs: torch tensors and numpy arrays.
MetricInputs ==
    {[t |-> ty, v |-> d] : ty \in {"Tensor", "ndarray"},
                           d \in [1..MetricNumel -> MetricValues]}

\* mean((y_hat - y) ** 2.0) in float64, kept exact.
MeanSquaredError(y_hat, y) ==
    Rat(SumTo([i \in DOMAIN y_hat.v |-> (y_hat.v[i] - y.v[i]) * (y_hat.v[i] - y.v[i])],
              Len(y_hat.v)),
        Len(y_hat.v))

\* The two functions registered under the name mse by @dispatch, each with
\* the signature it is registered for.
MseImplementations ==
    <<[signature |-> <<"ndarray", "ndarray">>, impl |-> "mse(np.ndarray, np.ndarray)"],
      [signature |-> <<"Tensor", "Tensor">>, impl |-> "mse(torch.Tensor, torch.Tensor)"]>>

NoImplementation == "none"

\* The dispatcher's choice: the implementation whose signature is the
\* types of the positional arguments; keyword arguments have no part in it.
Dispatch(args) ==
    LET types == [i \in DOMAIN args |-> args[i].t]
        found == {i \in DOMAIN MseImplementations :
                     MseImplementations[i].signature = types}
    IN IF found = {} THEN NoImplementation
       ELSE MseImplementations[CHOOSE i \in found : TRUE].impl

\* mse(*args, **kwargs): the dispatcher raises NotImplementedError when no
\* implementation is registered for the positional types, else calls the
\* implementation with all the arguments.
CallMse(args, kwargs) ==
    LET func == Dispatch(args)
        all  == args \o (IF "y_hat" \in DOMAIN kwargs THEN <<kwargs.y_hat>> ELSE <<>>)
                     \o (IF "y" \in DOMAIN kwargs THEN <<kwargs.y>> ELSE <<>>)
    IN IF func = NoImplementation
       THEN [outcome |-> "NotImplementedError", impl |-> NoImplementation,
             score |-> NoVar]
       ELSE [outcome |-> "returned", impl |-> func,
             score |-> MeanSquaredError(all[1], all[2])]

\* The empty keyword arguments.
NoKwargs == [k \in {} |-> 0]

NoMetricCall ==
    [call |-> "none", y_hat |-> [t |-> "none", v |-> <<>>],
     y |-> [t |-> "none", v |-> <<>>], outcome |-> "none",
     impl |-> NoImplementation, score |-> NoVar]

\* mse(y_hat, y), called with positional arguments.
MsePositional(y_hat, y) ==
    /\ metric.status = "run"
    /\ LET r == CallMse(<<y_hat, y>>, NoKwargs)
       IN metric' = [metric EXCEPT
                       !.last = [call |-> "mse", y_hat |-> y_hat, y |-> y,
                                 outcome |-> r.outcome, impl |-> r.impl,
                                 score |-> r.score]]
    /\ UNCHANGED <<layer, registry, dataset, plugin, config, enhancer, norm,
                   datamodule>>

\* MSE.forward(y_hat, y): return mse(y_hat = y_hat, y = y)
MSEForward(y_hat, y) ==
    /\ metric.status = "run"
    /\ LET r == CallMse(<<>>, [y_hat |-> y_hat, y |-> y])
       IN metric' = [metric EXCEPT
                       !.last = [call |-> "MSE.forward", y_hat |-> y_hat, y |-> y,
                                 outcome |-> r.outcome, impl |-> r.impl,
                                 score |-> r.score]]
    /\ UNCHANGED <<layer, registry, dataset, plugin, config, enhancer, norm,
                   datamodule>>

\* MSE.__init__
InitMetric ==
    /\ metric = [status |-> "run", name |-> "mse", last |-> NoMetricCall]
    /\ layer = NoLayer
    /\ registry = Idle
    /\ dataset = Idle
    /\ plugin = Idle
    /\ config = Idle
    /\ enhancer = Idle
    /\ norm = Idle
    /\ datamodule = Idle

NextMetric ==
    \/ \E y_hat \in MetricInputs, y \in MetricInputs : MsePositional(y_hat, y)
    \/ \E y_hat \in MetricInputs, y \in MetricInputs : MSEForward(y_hat, y)

SpecMetric == InitMetric /\ [][NextMetric]_vars

\* C25 (as claimed): MSE.forward(y_hat, y) reaches the mse implementation
\* that matches the argument types (the tensor one for two tensors, the
\* array one for two numpy arrays) and returns the mean squared error: 0
\* when y_hat equals y elementwise and positive otherwise.
C25_ForwardReturnsMse ==
    (/\ metric.status = "run"
     /\ metric.last.call = "MSE.forward"
     /\ metric.last.y_hat.t = metric.last.y.t)
        => /\ metric.last.outcome = "returned"
           /\ metric.last.impl =
                 (IF metric.last.y_hat.t = "Tensor"
                  THEN "mse(torch.Tensor, torch.Tensor)"
                  ELSE "mse(np.ndarray, np.ndarray)")
           /\ (metric.last.y_hat.v = metric.last.y.v) <=> (metric.last.score[1] = 0)
           /\ metric.last.score[1] >= 0

\* --------------------------------------------- CityscapesLoLDataModule

\* Number of prepare_data / setup calls followed on one datamodule.
MaxSetups == 2

\* Phase values setup documents: [None, Phase.TRAINING, Phase.TESTING].
Phases == {"None", "Phase.TRAINING", "Phase.TESTING"}

\* What getattr(dataset, "classlabels", None) gives for a constructed
\* CityscapesLoL: None, or the ClassLabels object the dataset loaded.
DatasetClassLabels == {"None", "dataset"}

\* The CityscapesLoL constructor that raises during one setup call, if any.
Failures == {"none", "train", "val", "test"}

\* An attribute still holding None.
NoDataset == [split |-> "None", serial |-> 0, classlabels |-> "None"]

\* CityscapesLoL(root = self.dataset_dir, split = split, **self.dataset_cfg):
\* serial tells the objects constructed by different calls apart.
NewDataset(split, serial, labels) ==
    [split |-> split, serial |-> serial, classlabels |-> labels]

\* load_classlabels: ClassLabels.create_from_file on the json file next to
\* the module; it raises when the file cannot be read.
LoadClassLabels(dm, file_found) ==
    IF file_found
    THEN [dm EXCEPT !.classlabels = "file", !.outcome = "returned"]
    ELSE [dm EXCEPT !.outcome = "raised"]

\* The final statements of prepare_data and of setup:
\* if self.classlabels is None: self.load_classlabels()
EnsureClassLabels(dm, file_found) ==
    IF dm.classlabels = "None"
    THEN LoadClassLabels(dm, file_found)
    ELSE [dm EXCEPT !.outcome = "returned"]

\* The block under `if phase in [None, Phase.TRAINING]`.
SetupTraining(dm, train_labels, fails) ==
    IF fails = "train"
    THEN [dm EXCEPT !.outcome = "raised"]
    ELSE LET withTrain ==
                 [dm EXCEPT !.train = NewDataset("train", dm.made + 1, train_labels),
                            !.made = dm.made + 1]
         IN IF fails = "val"
            THEN [withTrain EXCEPT !.outcome = "raised"]
            ELSE [withTrain EXCEPT
                    !.val = NewDataset("val", withTrain.made + 1, train_labels),
                    !.made = withTrain.made + 1,
                    !.classlabels = withTrain.train.classlabels,
                    !.collate_fn = "train"]

\* The block under `if phase in [None, Phase.TESTING]`: the test dataset is
\* built from the "val" split.
SetupTesting(dm, test_labels, fails) ==
    IF fails = "test"
    THEN [dm EXCEPT !.outcome = "raised"]
    ELSE [dm EXCEPT !.test = NewDataset("val", dm.made + 1, test_labels),
                    !.made = dm.made + 1,
                    !.classlabels = test_labels,
                    !.collate_fn = "test"]

\* A setup that builds all three datasets whatever the phase is.
SetupIgnoringPhase(dm, phase, train_labels, test_labels, fails, file_found) ==
    LET start == [dm EXCEPT !.outcome = "running"]
        a == SetupTraining(start, train_labels, fails)
        b == IF a.outcome = "raised" THEN a
             ELSE SetupTesting(a, test_labels, fails)
    IN IF b.outcome = "raised" THEN b ELSE EnsureClassLabels(b, file_found)

\* CityscapesLoLDataModule.setup(phase)
SetupResult(dm, phase, train_labels, test_labels, fails, file_found) ==
    LET start == [dm EXCEPT !.outcome = "running"]
        a == IF phase \in {"None", "Phase.TRAINING"}
             THEN SetupTraining(start, train_labels, fails)
             ELSE start
        b == IF a.outcome = "raised" THEN a
             ELSE IF phase \in {"None", "Phase.TESTING"}
                  THEN SetupTesting(a, test_labels, fails)
                  ELSE a
    IN IF b.outcome = "raised" THEN b ELSE EnsureClassLabels(b, file_found)

\* The attributes as they were when the last call started.
Attributes(dm) ==
    [train |-> dm.train, val |-> dm.val, test |-> dm.test,
     classlabels |-> dm.classlabels, made |-> dm.made]

\* datamodule.setup(phase = phase)
Setup(phase, train_labels, test_labels, fails, file_found) ==
    /\ datamodule.status = "run"
    /\ datamodule.calls < MaxSetups
    /\ datamodule' =
          [SetupResult(datamodule, phase, train_labels, test_labels, fails,
                       file_found)
             EXCEPT !.calls = datamodule.calls + 1,
                    !.call = "setup",
                    !.phase = phase,
                    !.before = Attributes(datamodule)]
    /\ UNCHANGED <<layer, registry, dataset, plugin, config, enhancer, norm,
                   metric>>

\* datamodule.prepare_data()
PrepareData(file_found) ==
    /\ datamodule.status = "run"
    /\ datamodule.calls < MaxSetups
    /\ datamodule' =
          [EnsureClassLabels(datamodule, file_found)
             EXCEPT !.calls = datamodule.calls + 1,
                    !.call = "prepare_data",
                    !.phase = "None",
                    !.before = Attributes(datamodule)]
    /\ UNCHANGED <<layer, registry, dataset, plugin, config, enhancer, norm,
                   metric>>

\* CityscapesLoLDataModule.__init__: no dataset and no class labels yet.
InitDataModule ==
    /\ datamodule =
          [status |-> "run", train |-> NoDataset, val |-> NoDataset,
           test |-> NoDataset, classlabels |-> "None", collate_fn |-> "None",
           made |-> 0, calls |-> 0, call |-> "none", phase |-> "None",
           outcome |-> "none",
           before |-> [train |-> NoDataset, val |-> NoDataset,
                       test |-> NoDataset, classlabels |-> "None",
                       made |-> 0]]
    /\ layer = NoLayer
    /\ registry = Idle
    /\ dataset = Idle
    /\ plugin = Idle
    /\ config = Idle
    /\ enhancer = Idle
    /\ norm = Idle
    /\ metric = Idle

NextDataModule ==
    \/ \E phase \in Phases, train_labels \in DatasetClassLabels,
          test_labels \in DatasetClassLabels, fails \in Failures,
          file_found \in BOOLEAN :
          Setup(phase, train_labels, test_labels, fails, file_found)
    \/ \E file_found \in BOOLEAN : PrepareData(file_found)

SpecDataModule == InitDataModule /\ [][NextDataModule]_vars

SetupReturned(phase) ==
    /\ datamodule.status = "run"
    /\ datamodule.call = "setup"
    /\ datamodule.phase = phase
    /\ datamodule.outcome = "returned"

\* The attribute holds a dataset constructed by the last call.
AssignedByLastCall(d) == d.serial > datamodule.before.made

\* C26: when setup(phase) returns, phase None has assigned train, val and
\* test; Phase.TRAINING has assigned train and val and left test as it was;
\* Phase.TESTING has assigned test and left train and val as they were; and
\* in each case classlabels is not None.
C26_SetupAssignsByPhase ==
    /\ SetupReturned("None") =>
          /\ AssignedByLastCall(datamodule.train)
          /\ AssignedByLastCall(datamodule.val)
          /\ AssignedByLastCall(datamodule.test)
          /\ datamodule.classlabels # "None"
    /\ SetupReturned("Phase.TRAINING") =>
          /\ AssignedByLastCall(datamodule.train)
          /\ AssignedByLastCall(datamodule.val)
          /\ datamodule.test = datamodule.before.test
          /\ datamodule.classlabels # "None"
    /\ SetupReturned("Phase.TESTING") =>
          /\ AssignedByLastCall(datamodule.test)
          /\ datamodule.train = datamodule.before.train
          /\ datamodule.val = datamodule.before.val
          /\ datamodule.classlabels # "None"

\* A second setup, for testing, has returned on a datamodule that already
\* held train and val datasets, with class labels read from the file.
C26_Witness ==
    /\ SetupReturned("Phase.TESTING")
    /\ datamodule.before.train # NoDataset
    /\ datamodule.before.val # NoDataset
    /\ datamodule.before.test = NoDataset
    /\ datamodule.test.split = "val"
    /\ datamodule.classlabels = "file"

\* ------------------------------------------------------- ContextBlock

\* Longest fusion_types sequence passed to the constructor.
MaxFusions == 2

PyTuple(q) == [t |-> "tuple", v |-> q]

\* pooling_type arguments: the two documented ones and another string.
PoolingTypes == {"att", "avg", "max"}

\* Strings found in fusion_types: the two allowed ones and another one.
FusionStrings == {"channel_add", "channel_mul", "channel_sub"}

FusionSeqs == UNION {[1..n -> FusionStrings] : n \in 0..MaxFusions}

\* fusion_types arguments: lists and tuples of strings, a bare string, None.
FusionArgs ==
    {PyList(q) : q \in FusionSeqs} \cup {PyTuple(q) : q \in FusionSeqs}
        \cup {PyStr("channel_add"), None}

\* valid_fusion_types = ["channel_add", "channel_mul"]
ValidFusionTypes == {"channel_add", "channel_mul"}

\* An attribute that no statement has assigned: reading it raises
\* AttributeError.
Unset == "unset"

\* The attributes of the object after nn.Module.__init__.
NoAttributes ==
    [conv_mask |-> Unset, softmax |-> Unset, avg_pool |-> Unset,
     channel_add_conv |-> Unset, channel_mul_conv |-> Unset,
     pooling_type |-> Unset]

\* if pooling_type == "att": conv_mask, softmax  else: avg_pool
WithPooling(attrs, pooling_type) ==
    IF pooling_type = "att"
    THEN [attrs EXCEPT !.conv_mask = "Conv2d", !.softmax = "Softmax"]
    ELSE [attrs EXCEPT !.avg_pool = "AdaptiveAvgPool2d"]

\* The two `if "channel_..." in fusion_types` statements.
WithFusion(attrs, fusion_types) ==
    [attrs EXCEPT
       !.channel_add_conv =
          IF "channel_add" \in Range(fusion_types.v) THEN "Sequential"
          ELSE "None",
       !.channel_mul_conv =
          IF "channel_mul" \in Range(fusion_types.v) THEN "Sequential"
          ELSE "None"]

Raised(error, line, attrs) ==
    [outcome |-> "raised", error |-> error, line |-> line, attrs |-> attrs]

\* ContextBlock.__init__; reset_defined tells whether the class of the
\* object has a reset_parameters method (ContextBlock and nn.Module have
\* none, a subclass may add one).
ContextBlockInit(pooling_type, fusion_types, reset_defined) ==
    IF pooling_type \notin {"avg", "att"}
    THEN Raised("AssertionError", 62, NoAttributes)
    ELSE IF fusion_types.t \notin {"list", "tuple"}
    THEN Raised("AssertionError", 63, NoAttributes)
    ELSE IF \E i \in DOMAIN fusion_types.v :
               fusion_types.v[i] \notin ValidFusionTypes
    THEN Raised("AssertionError", 65, NoAttributes)
    ELSE IF ~(Len(fusion_types.v) > 0)
    THEN Raised("AssertionError", 66, NoAttributes)
    ELSE LET attrs == WithFusion(WithPooling(NoAttributes, pooling_type),
                                 fusion_types)
         IN IF reset_defined
            THEN [outcome |-> "returned", error |-> "none", line |-> 109,
                  attrs |-> attrs]
            ELSE Raised("AttributeError", 109, attrs)

\* Tensor ranks passed to forward.
XDims == {3, 4}

\* ContextBlock.spatial_pool(x)
SpatialPool(attrs, xdim) ==
    IF xdim # 4
    THEN [outcome |-> "raised", error |-> "ValueError", method |-> "none"]
    ELSE IF attrs.pooling_type = Unset
    THEN [outcome |-> "raised", error |-> "AttributeError", method |-> "none"]
    ELSE IF attrs.pooling_type = "att"
    THEN IF attrs.conv_mask = Unset \/ attrs.softmax = Unset
         THEN [outcome |-> "raised", error |-> "AttributeError",
               method |-> "none"]
         ELSE [outcome |-> "returned", error |-> "none",
               method |-> "conv_mask + softmax"]
    ELSE IF attrs.avg_pool = Unset
         THEN [outcome |-> "raised", error |-> "AttributeError",
               method |-> "none"]
         ELSE [outcome |-> "returned", error |-> "none",
               method |-> "avg_pool"]

\* ContextBlock.forward(x): the pooled context, then the fusion terms that
\* are not None, multiplication first.
ContextForwardResult(attrs, xdim) ==
    LET context == SpatialPool(attrs, xdim)
    IN IF context.outcome = "raised"
       THEN [outcome |-> "raised", error |-> context.error,
             method |-> "none", terms |-> <<>>]
       ELSE IF attrs.channel_mul_conv = Unset \/ attrs.channel_add_conv = Unset
       THEN [outcome |-> "raised", error |-> "AttributeError",
             method |-> context.method, terms |-> <<>>]
       ELSE [outcome |-> "returned", error |-> "none",
             method |-> context.method,
             terms |-> (IF attrs.channel_mul_conv # "None"
                        THEN <<"channel_mul">> ELSE <<>>)
                       \o (IF attrs.channel_add_conv # "None"
                           THEN <<"channel_add">> ELSE <<>>)]

NoContextForward ==
    [outcome |-> "none", error |-> "none", method |-> "none", terms |-> <<>>]

NoContextBlock ==
    [outcome |-> "none", error |-> "none", line |-> 0, attrs |-> NoAttributes]

\* obj = ContextBlock(in_channels, ratio, pooling_type, fusion_types)
ConstructContextBlock(pooling_type, fusion_types, reset_defined) ==
    /\ plugin.status = "context"
    /\ plugin.obj.outcome = "none"
    /\ plugin' = [plugin EXCEPT
                    !.pooling_type = pooling_type,
                    !.fusion_types = fusion_types,
                    !.reset_defined = reset_defined,
                    !.obj = ContextBlockInit(pooling_type, fusion_types,
                                             reset_defined)]
    /\ UNCHANGED <<layer, registry, dataset, config, enhancer, norm, metric,
                   datamodule>>

\* obj(x), on an object whose constructor returned.
ContextForward(xdim) ==
    /\ plugin.status = "context"
    /\ plugin.obj.outcome = "returned"
    /\ plugin.out.outcome = "none"
    /\ plugin' = [plugin EXCEPT
                    !.xdim = xdim,
                    !.out = ContextForwardResult(plugin.obj.attrs, xdim)]
    /\ UNCHANGED <<layer, registry, dataset, config, enhancer, norm, metric,
                   datamodule>>

InitContext ==
    /\ plugin = [status |-> "context", pooling_type |-> "none",
                 fusion_types |-> None, reset_defined |-> FALSE,
                 obj |-> NoContextBlock, xdim |-> 0,
                 out |-> NoContextForward]
    /\ layer = NoLayer
    /\ registry = Idle
    /\ dataset = Idle
    /\ config = Idle
    /\ enhancer = Idle
    /\ norm = Idle
    /\ metric = Idle
    /\ datamodule = Idle

NextContext ==
    \/ \E pooling_type \in PoolingTypes, fusion_types \in FusionArgs,
          reset_defined \in BOOLEAN :
          ConstructContextBlock(pooling_type, fusion_types, reset_defined)
    \/ \E xdim \in XDims : ContextForward(xdim)

SpecContext == InitContext /\ [][NextContext]_vars

\* ContextBlock(...) itself has been called (not a subclass).
ContextBlockCalled ==
    /\ plugin.status = "context"
    /\ plugin.obj.outcome # "none"
    /\ ~plugin.reset_defined

FusionTypesRejected ==
    \/ plugin.fusion_types.t \notin {"list", "tuple"}
    \/ \E i \in DOMAIN plugin.fusion_types.v :
          plugin.fusion_types.v[i] \notin ValidFusionTypes
    \/ Len(plugin.fusion_types.v) = 0

AttributesRead(pooling_type) ==
    {"pooling_type", "channel_mul_conv", "channel_add_conv"}
        \cup (IF pooling_type = "att" THEN {"conv_mask", "softmax"}
              ELSE {"avg_pool"})

\* C27 (as claimed): when the constructor has accepted pooling_type att or
\* avg, it has assigned every attribute forward and spatial_pool read, and
\* forward of a 4-D tensor returns, having pooled the context with conv_mask
\* and softmax for att and with avg_pool for avg.
C27_PoolingFollowsPoolingType ==
    (/\ plugin.status = "context"
     /\ plugin.obj.outcome # "none"
     /\ plugin.obj.line = 109) =>
        /\ \A a \in AttributesRead(plugin.pooling_type) :
              plugin.obj.attrs[a] # Unset
        /\ (plugin.out.outcome # "none" /\ plugin.xdim = 4) =>
              /\ plugin.out.outcome = "returned"
              /\ plugin.out.method =
                    (IF plugin.pooling_type = "att"
                     THEN "conv_mask + softmax" ELSE "avg_pool")

====
